---- MODULE Spec2Model ----
(***************************************************************************)
(* Verification model of the plant research pipeline:                      *)
(*   research_v2/spider.py    PlantNameMatcher, ResearchCollector          *)
(*   research_v2/generator.py ArticleGenerator                             *)
(*   test_generator.py        generate_plant_article                       *)
(* Strings whose characters matter (catalog names, search terms) are       *)
(* sequences of one-character strings.                                     *)
(***************************************************************************)
EXTENDS Integers, Sequences, FiniteSets, TLC

(***************************************************************************)
(* PlantNameMatcher.SA_PLANTS, in dictionary insertion order.              *)
(***************************************************************************)
SA_PLANTS ==
  <<
  [plant_key |-> "protea",
     names |-> <<
       <<"p","r","o","t","e","a">>,
       <<"k","i","n","g"," ","p","r","o","t","e","a">>,
       <<"p","r","o","t","e","a"," ","c","y","n","a","r","o","i","d","e","s">>,
       <<"s","u","g","a","r"," ","b","u","s","h">>,
       <<"s","u","g","a","r","b","u","s","h">>>>,
     scientific |-> <<"P","r","o","t","e","a"," ","c","y","n","a","r","o","i","d","e","s">>,
     family |-> <<"P","r","o","t","e","a","c","e","a","e">>,
     common_names |-> <<
       <<"k","i","n","g"," ","p","r","o","t","e","a">>,
       <<"g","i","a","n","t"," ","p","r","o","t","e","a">>,
       <<"h","o","n","e","y","p","o","t">>>>],
  [plant_key |-> "pincushion",
     names |-> <<
       <<"p","i","n","c","u","s","h","i","o","n">>,
       <<"l","e","u","c","o","s","p","e","r","m","u","m">>,
       <<"p","i","n","c","u","s","h","i","o","n"," ","p","r","o","t","e","a">>>>,
     scientific |-> <<"L","e","u","c","o","s","p","e","r","m","u","m">>,
     family |-> <<"P","r","o","t","e","a","c","e","a","e">>,
     common_names |-> <<
       <<"p","i","n","c","u","s","h","i","o","n"," ","f","l","o","w","e","r">>,
       <<"n","e","e","d","l","e"," ","c","u","s","h","i","o","n">>>>],
  [plant_key |-> "rooibos",
     names |-> <<
       <<"r","o","o","i","b","o","s">>,
       <<"r","e","d"," ","b","u","s","h">>,
       <<"r","e","d","b","u","s","h">>,
       <<"r","e","d"," ","b","u","s","h"," ","t","e","a">>,
       <<"a","s","p","a","l","a","t","h","u","s"," ","l","i","n","e","a","r","i","s">>,
       <<"b","u","s","h"," ","t","e","a">>>>,
     scientific |-> <<"A","s","p","a","l","a","t","h","u","s"," ","l","i","n","e","a","r","i","s">>,
     family |-> <<"F","a","b","a","c","e","a","e">>,
     common_names |-> <<
       <<"r","e","d"," ","b","u","s","h"," ","t","e","a">>,
       <<"b","u","s","h"," ","t","e","a">>,
       <<"r","o","o","i","b","o","s"," ","t","e","a">>>>],
  [plant_key |-> "buchu",
     names |-> <<
       <<"b","u","c","h","u">>,
       <<"a","g","a","t","h","o","s","m","a">>,
       <<"r","o","u","n","d"," ","l","e","a","f"," ","b","u","c","h","u">>,
       <<"a","g","a","t","h","o","s","m","a"," ","b","e","t","u","l","i","n","a">>,
       <<"b","a","r","o","s","m","a">>>>,
     scientific |-> <<"A","g","a","t","h","o","s","m","a"," ","b","e","t","u","l","i","n","a">>,
     family |-> <<"R","u","t","a","c","e","a","e">>,
     common_names |-> <<
       <<"b","o","o","k","o","o">>,
       <<"d","i","o","s","m","a">>,
       <<"s","h","o","r","t"," ","b","u","c","h","u">>>>],
  [plant_key |-> "african_wormwood",
     names |-> <<
       <<"a","f","r","i","c","a","n"," ","w","o","r","m","w","o","o","d">>,
       <<"a","r","t","e","m","i","s","i","a"," ","a","f","r","a">>,
       <<"w","i","l","d","e"," ","a","l","s">>,
       <<"u","m","h","l","o","n","y","a","n","e">>,
       <<"w","o","r","m","w","o","o","d">>>>,
     scientific |-> <<"A","r","t","e","m","i","s","i","a"," ","a","f","r","a">>,
     family |-> <<"A","s","t","e","r","a","c","e","a","e">>,
     common_names |-> <<
       <<"w","i","l","d","e"," ","a","l","s">>,
       <<"u","m","h","l","o","n","y","a","n","e">>,
       <<"A","f","r","i","c","a","n"," ","s","a","g","e">>>>],
  [plant_key |-> "sutherlandia",
     names |-> <<
       <<"s","u","t","h","e","r","l","a","n","d","i","a">>,
       <<"c","a","n","c","e","r"," ","b","u","s","h">>,
       <<"k","a","n","k","e","r","b","o","s">>,
       <<"l","e","s","s","e","r","t","i","a"," ","f","r","u","t","e","s","c","e","n","s">>,
       <<"b","a","l","l","o","o","n"," ","p","e","a">>>>,
     scientific |-> <<"L","e","s","s","e","r","t","i","a"," ","f","r","u","t","e","s","c","e","n","s">>,
     family |-> <<"F","a","b","a","c","e","a","e">>,
     common_names |-> <<
       <<"c","a","n","c","e","r"," ","b","u","s","h">>,
       <<"k","a","n","k","e","r","b","o","s">>,
       <<"b","a","l","l","o","o","n"," ","p","e","a">>,
       <<"s","w","a","n"," ","p","l","a","n","t">>>>],
  [plant_key |-> "wild_garlic",
     names |-> <<
       <<"w","i","l","d"," ","g","a","r","l","i","c">>,
       <<"t","u","l","b","a","g","h","i","a">>,
       <<"s","o","c","i","e","t","y"," ","g","a","r","l","i","c">>,
       <<"t","u","l","b","a","g","h","i","a"," ","v","i","o","l","a","c","e","a">>,
       <<"p","i","n","k"," ","a","g","a","p","a","n","t","h","u","s">>>>,
     scientific |-> <<"T","u","l","b","a","g","h","i","a"," ","v","i","o","l","a","c","e","a">>,
     family |-> <<"A","m","a","r","y","l","l","i","d","a","c","e","a","e">>,
     common_names |-> <<
       <<"s","o","c","i","e","t","y"," ","g","a","r","l","i","c">>,
       <<"s","w","e","e","t"," ","g","a","r","l","i","c">>,
       <<"p","i","n","k"," ","a","g","a","p","a","n","t","h","u","s">>>>],
  [plant_key |-> "kanna",
     names |-> <<
       <<"k","a","n","n","a">>,
       <<"s","c","e","l","e","t","i","u","m">>,
       <<"k","o","u","g","o","e","d">>,
       <<"s","c","e","l","e","t","i","u","m"," ","t","o","r","t","u","o","s","u","m">>,
       <<"c","h","a","n","n","a">>>>,
     scientific |-> <<"S","c","e","l","e","t","i","u","m"," ","t","o","r","t","u","o","s","u","m">>,
     family |-> <<"A","i","z","o","a","c","e","a","e">>,
     common_names |-> <<
       <<"k","o","u","g","o","e","d">>,
       <<"c","h","a","n","n","a">>,
       <<"t","o","r","t","u","o","s","e"," ","f","i","g","-","m","a","r","i","g","o","l","d">>>>],
  [plant_key |-> "honeybush",
     names |-> <<
       <<"h","o","n","e","y","b","u","s","h">>,
       <<"h","e","u","n","i","n","g","b","o","s">>,
       <<"c","y","c","l","o","p","i","a">>,
       <<"h","o","n","e","y"," ","b","u","s","h"," ","t","e","a">>,
       <<"m","o","u","n","t","a","i","n"," ","t","e","a">>>>,
     scientific |-> <<"C","y","c","l","o","p","i","a"," ","i","n","t","e","r","m","e","d","i","a">>,
     family |-> <<"F","a","b","a","c","e","a","e">>,
     common_names |-> <<
       <<"h","e","u","n","i","n","g","b","o","s">>,
       <<"b","e","r","g","t","e","e">>,
       <<"m","o","u","n","t","a","i","n"," ","t","e","a">>>>],
  [plant_key |-> "african_potato",
     names |-> <<
       <<"a","f","r","i","c","a","n"," ","p","o","t","a","t","o">>,
       <<"h","y","p","o","x","i","s">>,
       <<"y","e","l","l","o","w"," ","s","t","a","r","s">>,
       <<"h","y","p","o","x","i","s"," ","h","e","m","e","r","o","c","a","l","l","i","d","e","a">>,
       <<"s","t","a","r"," ","l","i","l","y">>>>,
     scientific |-> <<"H","y","p","o","x","i","s"," ","h","e","m","e","r","o","c","a","l","l","i","d","e","a">>,
     family |-> <<"H","y","p","o","x","i","d","a","c","e","a","e">>,
     common_names |-> <<
       <<"y","e","l","l","o","w"," ","s","t","a","r","s">>,
       <<"s","t","a","r"," ","l","i","l","y">>,
       <<"A","f","r","i","c","a","n"," ","s","t","a","r"," ","g","r","a","s","s">>>>],
  [plant_key |-> "wild_dagga",
     names |-> <<
       <<"w","i","l","d"," ","d","a","g","g","a">>,
       <<"l","e","o","n","o","t","i","s">>,
       <<"l","i","o","n","s"," ","t","a","i","l">>,
       <<"l","e","o","n","o","t","i","s"," ","l","e","o","n","u","r","u","s">>,
       <<"m","i","n","a","r","e","t"," ","f","l","o","w","e","r">>>>,
     scientific |-> <<"L","e","o","n","o","t","i","s"," ","l","e","o","n","u","r","u","s">>,
     family |-> <<"L","a","m","i","a","c","e","a","e">>,
     common_names |-> <<
       <<"l","i","o","n","s"," ","t","a","i","l">>,
       <<"m","i","n","a","r","e","t"," ","f","l","o","w","e","r">>,
       <<"l","i","o","n","'","s"," ","e","a","r">>>>],
  [plant_key |-> "cape_aloe",
     names |-> <<
       <<"c","a","p","e"," ","a","l","o","e">>,
       <<"a","l","o","e"," ","f","e","r","o","x">>,
       <<"b","i","t","t","e","r"," ","a","l","o","e">>,
       <<"r","e","d"," ","a","l","o","e">>,
       <<"t","a","p"," ","a","l","o","e">>>>,
     scientific |-> <<"A","l","o","e"," ","f","e","r","o","x">>,
     family |-> <<"A","s","p","h","o","d","e","l","a","c","e","a","e">>,
     common_names |-> <<
       <<"b","i","t","t","e","r"," ","a","l","o","e">>,
       <<"r","e","d"," ","a","l","o","e">>,
       <<"t","a","p"," ","a","l","o","e">>>>],
  [plant_key |-> "bird_of_paradise",
     names |-> <<
       <<"b","i","r","d"," ","o","f"," ","p","a","r","a","d","i","s","e">>,
       <<"s","t","r","e","l","i","t","z","i","a">>,
       <<"s","t","r","e","l","i","t","z","i","a"," ","r","e","g","i","n","a","e">>,
       <<"c","r","a","n","e"," ","f","l","o","w","e","r">>>>,
     scientific |-> <<"S","t","r","e","l","i","t","z","i","a"," ","r","e","g","i","n","a","e">>,
     family |-> <<"S","t","r","e","l","i","t","z","i","a","c","e","a","e">>,
     common_names |-> <<
       <<"c","r","a","n","e"," ","f","l","o","w","e","r">>,
       <<"o","r","a","n","g","e"," ","b","i","r","d"," ","o","f"," ","p","a","r","a","d","i","s","e">>>>]
  >>

(***************************************************************************)
(* str.lower() and str.strip() on character sequences.                     *)
(***************************************************************************)
UpperChars ==
  <<"A","B","C","D","E","F","G","H","I","J","K","L","M",
    "N","O","P","Q","R","S","T","U","V","W","X","Y","Z">>

LowerChars ==
  <<"a","b","c","d","e","f","g","h","i","j","k","l","m",
    "n","o","p","q","r","s","t","u","v","w","x","y","z">>

\* the lower-case letter of every upper-case letter
LowerOf ==
  [c \in {UpperChars[i] : i \in 1..Len(UpperChars)} |->
     LowerChars[CHOOSE i \in 1..Len(UpperChars) : UpperChars[i] = c]]

LowerChar(c) == IF c \in DOMAIN LowerOf THEN LowerOf[c] ELSE c

lower(s) == [i \in 1..Len(s) |-> LowerChar(s[i])]

RECURSIVE lstrip(_)
lstrip(s) == IF s # <<>> /\ Head(s) = " " THEN lstrip(Tail(s)) ELSE s

RECURSIVE rstrip(_)
rstrip(s) ==
  IF s # <<>> /\ s[Len(s)] = " " THEN rstrip(SubSeq(s, 1, Len(s) - 1)) ELSE s

strip(s) == rstrip(lstrip(s))

\* Python's "sub in s" for strings
Contains(sub, s) ==
  \E i \in 0..(Len(s) - Len(sub)) : SubSeq(s, i + 1, i + Len(sub)) = sub

(***************************************************************************)
(* difflib.SequenceMatcher(None, a, b).ratio().  No junk: isjunk is None   *)
(* and the autojunk heuristic needs len(b) >= 200.  Indices are Python's   *)
(* (0-based, half-open ranges).                                            *)
(***************************************************************************)
\* length of the common run of a[i:ahi] and b[j:bhi]
RECURSIVE RunLen(_, _, _, _, _, _)
RunLen(a, b, i, j, ahi, bhi) ==
  IF i < ahi /\ j < bhi /\ a[i + 1] = b[j + 1]
  THEN 1 + RunLen(a, b, i + 1, j + 1, ahi, bhi)
  ELSE 0

\* the best block among those starting at (i, j), (i, j+1), ... in row i
RECURSIVE ScanCol(_, _, _, _, _, _)
ScanCol(a, b, i, j, ahi, bhi) ==
  IF j >= bhi THEN <<i, j, 0>>
  ELSE LET k == IF a[i + 1] = b[j + 1] THEN RunLen(a, b, i, j, ahi, bhi) ELSE 0
           rest == ScanCol(a, b, i, j + 1, ahi, bhi)
       IN  IF k > 0 /\ k >= rest[3] THEN <<i, j, k>> ELSE rest

\* the best block among those starting in rows i, i+1, ...
RECURSIVE ScanRow(_, _, _, _, _, _)
ScanRow(a, b, i, ahi, blo, bhi) ==
  IF i >= ahi THEN <<i, blo, 0>>
  ELSE LET row == ScanCol(a, b, i, blo, ahi, bhi)
           rest == ScanRow(a, b, i + 1, ahi, blo, bhi)
       IN  IF row[3] > 0 /\ row[3] >= rest[3] THEN row ELSE rest

\* the longest matching block of a[alo:ahi] and b[blo:bhi]; of the maximal
\* ones the earliest in a, then the earliest in b; (alo, blo, 0) if none
find_longest_match(a, b, alo, ahi, blo, bhi) ==
  LET best == ScanRow(a, b, alo, ahi, blo, bhi)
  IN  IF best[3] = 0 THEN <<alo, blo, 0>> ELSE best

\* sum of the sizes of get_matching_blocks()
RECURSIVE MatchCount(_, _, _, _, _, _)
MatchCount(a, b, alo, ahi, blo, bhi) ==
  LET x == find_longest_match(a, b, alo, ahi, blo, bhi)
      i == x[1]
      j == x[2]
      k == x[3]
  IN  IF k = 0 THEN 0
      ELSE k
           + (IF alo < i /\ blo < j THEN MatchCount(a, b, alo, i, blo, j) ELSE 0)
           + (IF i + k < ahi /\ j + k < bhi
              THEN MatchCount(a, b, i + k, ahi, j + k, bhi) ELSE 0)

\* ratio() is 2.0*matches/length, 1.0 when both are empty; kept as the
\* fraction num/den
ratio(a, b) ==
  LET length == Len(a) + Len(b)
  IN  IF length = 0 THEN [num |-> 1, den |-> 1]
      ELSE [num |-> 2 * MatchCount(a, b, 0, Len(a), 0, Len(b)), den |-> length]

\* comparisons of fractions with positive denominators
FracGeq(x, y) == x.num * y.den >= y.num * x.den

FracGt(x, y) == x.num * y.den > y.num * x.den

FracEq(x, y) == x.num * y.den = y.num * x.den

(***************************************************************************)
(* PlantNameMatcher.fuzzy_match                                            *)
(***************************************************************************)
\* the default threshold of fuzzy_match and the one its other callers pass
DefaultThreshold == [num |-> 6, den |-> 10]

LowThreshold == [num |-> 3, den |-> 10]

\* the inner loop over plant_data['names']: the index of the first name that
\* qualifies (similarity >= threshold or containment either way), 0 if none
RECURSIVE FirstQualifyingName(_, _, _, _)
FirstQualifyingName(term, names, threshold, n) ==
  IF n > Len(names) THEN 0
  ELSE LET name == lower(names[n])
           similarity == ratio(term, name)
           contains_match == Contains(term, name) \/ Contains(name, term)
       IN  IF FracGeq(similarity, threshold) \/ contains_match
           THEN n
           ELSE FirstQualifyingName(term, names, threshold, n + 1)

\* the match dictionary appended for plant p matched through its n-th name
MatchOf(term, p, n) ==
  [plant_key       |-> SA_PLANTS[p].plant_key,
   matched_name    |-> SA_PLANTS[p].names[n],
   similarity      |-> ratio(term, lower(SA_PLANTS[p].names[n])),
   scientific_name |-> SA_PLANTS[p].scientific,
   common_names    |-> SA_PLANTS[p].common_names,
   family          |-> SA_PLANTS[p].family]

\* the outer loop: one match per plant, at its first qualifying name
RECURSIVE CollectMatches(_, _, _)
CollectMatches(term, threshold, p) ==
  IF p > Len(SA_PLANTS) THEN <<>>
  ELSE LET n == FirstQualifyingName(term, SA_PLANTS[p].names, threshold, 1)
       IN  (IF n = 0 THEN <<>> ELSE <<MatchOf(term, p, n)>>)
           \o CollectMatches(term, threshold, p + 1)

\* list.sort(key=similarity, reverse=True): descending and stable
\* a sort that puts a match ahead of the earlier matches of equal similarity
RECURSIVE InsertSortedUnstable(_, _)
InsertSortedUnstable(sorted, m) ==
  IF sorted = <<>> THEN <<m>>
  ELSE IF FracGeq(m.similarity, Head(sorted).similarity)
       THEN <<m>> \o sorted
       ELSE <<Head(sorted)>> \o InsertSortedUnstable(Tail(sorted), m)

RECURSIVE InsertSorted(_, _)
InsertSorted(sorted, m) ==
  IF sorted = <<>> THEN <<m>>
  ELSE IF FracGt(m.similarity, Head(sorted).similarity)
       THEN <<m>> \o sorted
       ELSE <<Head(sorted)>> \o InsertSorted(Tail(sorted), m)

RECURSIVE SortBySimilarity(_, _)
SortBySimilarity(ms, n) ==
  IF n = 0 THEN <<>>
  ELSE InsertSorted(SortBySimilarity(ms, n - 1), ms[n])

fuzzy_match(search_term, threshold) ==
  LET term == strip(lower(search_term))
      found == CollectMatches(term, threshold, 1)
  IN  SortBySimilarity(found, Len(found))

\* position of a plant in the catalog (dictionary insertion order)
CatalogIndex(key) == CHOOSE p \in 1..Len(SA_PLANTS) : SA_PLANTS[p].plant_key = key

(***************************************************************************)
(* Text.  A text is a sequence of sentences and a flag telling whether the *)
(* last sentence carries its full stop; a sentence is a sequence of atoms; *)
(* an atom is a stretch of text without a full stop: id names its          *)
(* lower-cased wording, len is its length in characters, kw the sections   *)
(* whose keywords (extract_section_content) occur in it, and text the      *)
(* characters of a value formatted into a template (a name).               *)
(***************************************************************************)
Atom(id, len, kw) == [id |-> id, len |-> len, kw |-> kw, text |-> <<>>]

NameAtom(chars) == [id |-> "name", len |-> Len(chars), kw |-> {}, text |-> chars]

RECURSIVE SumLen(_)
SumLen(s) == IF s = <<>> THEN 0 ELSE Head(s).len + SumLen(Tail(s))

\* len() of a sentence without its full stop: the atoms joined by blanks
SentLen(s) == IF s = <<>> THEN 0 ELSE SumLen(s) + Len(s) - 1

RECURSIVE SumSentLen(_)
SumSentLen(ss) == IF ss = <<>> THEN 0 ELSE SentLen(Head(ss)) + SumSentLen(Tail(ss))

Text(sents, dot) == [sents |-> sents, dot |-> dot]

EmptyText == Text(<<>>, FALSE)

\* len() of a text: sentences, their full stops, one blank between sentences
TextLen(t) ==
  IF t.sents = <<>> THEN 0
  ELSE SumSentLen(t.sents) + 2 * (Len(t.sents) - 1) + (IF t.dot THEN 1 ELSE 0)

RECURSIVE JoinNames(_, _)
\* ', '.join(names[:n])
JoinNames(names, n) ==
  IF n = 0 \/ names = <<>> THEN <<>>
  ELSE IF n = 1 \/ Len(names) = 1 THEN Head(names)
       ELSE Head(names) \o <<",", " ">> \o JoinNames(Tail(names), n - 1)

FallbackSentencesMatched(plant_name, scientific_name, family, common_names) ==
  <<
    <<NameAtom(plant_name),
      Atom("fbm_1_1", 1, {}),
      NameAtom(scientific_name),
      Atom("fbm_1_2", 72, {"habitat"}),
      NameAtom(family),
      Atom("fbm_1_3", 6, {})>>,
    <<Atom("fbm_2_1", 50, {}),
      NameAtom(common_names)>>,
    <<Atom("fbm_3_1", 186, {"habitat", "cultural"})>>,
    <<Atom("fbm_4_1", 25, {}),
      NameAtom(plant_name),
      Atom("fbm_4_2", 82, {})>>,
    <<Atom("fbm_5_1", 144, {"habitat"})>>,
    <<Atom("fbm_6_1", 151, {})>>,
    <<Atom("fbm_7_1", 28, {"cultural"}),
      NameAtom(plant_name),
      Atom("fbm_7_2", 34, {})>>,
    <<Atom("fbm_8_1", 178, {"cultural"})>>,
    <<Atom("fbm_9_1", 166, {"cultural", "conservation"})>>,
    <<Atom("fbm_10_1", 28, {"conservation"}),
      NameAtom(plant_name),
      Atom("fbm_10_2", 97, {"conservation"})>>,
    <<Atom("fbm_11_1", 174, {"cultural"})>>
  >>

FallbackSentencesUnmatched(plant_name) ==
  <<
    <<NameAtom(plant_name),
      Atom("fbu_1_1", 128, {"habitat"})>>,
    <<Atom("fbu_2_1", 163, {})>>,
    <<Atom("fbu_3_1", 22, {"cultural"}),
      NameAtom(plant_name),
      Atom("fbu_3_2", 115, {"characteristics"})>>,
    <<Atom("fbu_4_1", 188, {"habitat"})>>,
    <<Atom("fbu_5_1", 121, {"cultural"})>>,
    <<Atom("fbu_6_1", 206, {"cultural"})>>,
    <<Atom("fbu_7_1", 36, {"conservation"}),
      NameAtom(plant_name),
      Atom("fbu_7_2", 62, {})>>,
    <<Atom("fbu_8_1", 165, {"habitat", "cultural"})>>,
    <<Atom("fbu_9_1", 133, {"conservation"})>>
  >>

(***************************************************************************)
(* ResearchCollector                                                       *)
(***************************************************************************)
Record(source, type, content) ==
  [source |-> source, type |-> type, content |-> content]

\* lines 632-687: the record, given the matches of line 630
FallbackRecord(plant_name, ms) ==
  LET content ==
        IF ms # <<>>
        THEN LET plant_info == SA_PLANTS[CatalogIndex(ms[1].plant_key)]
             IN  Text(FallbackSentencesMatched(plant_name,
                                               plant_info.scientific,
                                               plant_info.family,
                                               JoinNames(plant_info.common_names, 3)),
                      TRUE)
        ELSE Text(FallbackSentencesUnmatched(plant_name), TRUE)
  IN  Record("Enhanced Default", "general_info", content)

\* a fallback record with nothing in it
EmptyFallbackContent(plant_name) == Record("Enhanced Default", "unclassified", EmptyText)

\* ResearchCollector._generate_fallback_content
_generate_fallback_content(plant_name) ==
  CHOOSE record \in {FallbackRecord(plant_name, ms) :
                       ms \in {fuzzy_match(plant_name, LowThreshold)}} : TRUE

\* what the external sources hold, as far as the adapters read it
WikiExtract ==
  Text(<< <<Atom("wiki_1", 140, {"habitat"})>>,
          <<Atom("wiki_2", 95, {"characteristics"})>> >>, TRUE)

PubMedAbstract ==
  Text(<< <<Atom("pubmed_1", 180, {"cultural"})>>,
          <<Atom("pubmed_2", 110, {})>> >>, TRUE)

OpenAlexAbstract ==
  Text(<< <<Atom("openalex_1", 160, {"cultural", "conservation"})>> >>, TRUE)

SitePage ==
  Text(<< <<Atom("site_1", 150, {"habitat"})>>,
          <<Atom("site_2", 120, {"characteristics"})>> >>, TRUE)

\* how one adapter call went: the source had the plant, had nothing, every
\* request failed inside the adapter (caught there), or the call raised
AdapterOutcomes == {"found", "nothing", "failed", "raised"}

\* get_wikipedia_content: a result dictionary, or None (here <<>>) when no
\* variation gave a standard page or every request raised (caught per
\* variation); "empty" is a standard page whose extract is empty
get_wikipedia_content(outcome) ==
  CASE outcome = "found" -> <<Record("Wikipedia", "general_info", WikiExtract)>>
    [] outcome = "empty" -> <<Record("Wikipedia", "general_info", EmptyText)>>
    [] OTHER -> <<>>

\* search_pubmed: the list of results; an article without AbstractText
\* gives a result with empty content
search_pubmed(outcome) ==
  [raised  |-> outcome = "raised",
   results |-> IF outcome = "found"
               THEN <<Record("PubMed", "benefits", PubMedAbstract),
                      Record("PubMed", "benefits", EmptyText)>>
               ELSE <<>>]

\* search_openalex
search_openalex(outcome) ==
  [raised  |-> outcome = "raised",
   results |-> IF outcome = "found"
               THEN <<Record("OpenAlex", "characteristics", OpenAlexAbstract)>>
               ELSE <<>>]

\* search_botanical_sites: every failure is caught per URL
search_botanical_sites(outcome) ==
  IF outcome = "found"
  THEN <<Record("pza.sanbi.org", "characteristics", SitePage)>>
  ELSE <<>>

\* collect_research without lines 617-625
WithoutFallback(all_content, plant_name) == all_content

\* collect_research, lines 617-625: the fallback record when nothing was found
WithFallback(all_content, plant_name) ==
  IF all_content = <<>>
  THEN Append(all_content, _generate_fallback_content(plant_name))
  ELSE all_content

(***************************************************************************)
(* Formatting a name into a template.  A full stop inside the name ends a  *)
(* sentence of the formatted text, so the sentence is split there.  Names  *)
(* are taken to start every part after a full stop with a capital letter.  *)
(***************************************************************************)
\* str.split('.') with every part stripped
RECURSIVE SplitDots(_)
SplitDots(chars) ==
  LET dots == {i \in 1..Len(chars) : chars[i] = "."}
  IN  IF dots = {} THEN <<strip(chars)>>
      ELSE LET first == CHOOSE i \in dots : \A j \in dots : i <= j
           IN  <<strip(SubSeq(chars, 1, first - 1))>>
               \o SplitDots(SubSeq(chars, first + 1, Len(chars)))

NonEmptyAtom(a) == a.len > 0

\* the sentences one template sentence becomes once its names are formatted
RECURSIVE ExpandSentence(_, _)
ExpandSentence(atoms, cur) ==
  IF atoms = <<>> THEN <<SelectSeq(cur, NonEmptyAtom)>>
  ELSE LET a == Head(atoms)
           parts == SplitDots(a.text)
       IN  IF a.id = "name" /\ Len(parts) > 1
           THEN <<SelectSeq(Append(cur, NameAtom(parts[1])), NonEmptyAtom)>>
                \o [i \in 1..(Len(parts) - 2) |->
                      SelectSeq(<<NameAtom(parts[i + 1])>>, NonEmptyAtom)]
                \o ExpandSentence(Tail(atoms), <<NameAtom(parts[Len(parts)])>>)
           ELSE ExpandSentence(Tail(atoms), Append(cur, a))

RECURSIVE Instantiate(_)
Instantiate(sents) ==
  IF sents = <<>> THEN <<>>
  ELSE ExpandSentence(Head(sents), <<>>) \o Instantiate(Tail(sents))

(***************************************************************************)
(* ArticleGenerator                                                        *)
(***************************************************************************)
\* _hash_content: the MD5 digest of the exact characters; equal digests are
\* taken to mean equal content
_hash_content(content) == [md5 |-> content]

Meaningful(s) == SentLen(s) > 10

\* clean_text: whitespace collapsed, the text split at full stops, the parts
\* of at most 10 characters dropped and the rest joined by '. ' (so the
\* result never ends with a full stop)
clean_text(t) == Text(SelectSeq(t.sents, Meaningful), FALSE)

\* the sections whose keywords occur in a text
RECURSIVE SentKeywords(_)
SentKeywords(s) == IF s = <<>> THEN {} ELSE Head(s).kw \cup SentKeywords(Tail(s))

RECURSIVE Keywords(_)
Keywords(sents) ==
  IF sents = <<>> THEN {} ELSE SentKeywords(Head(sents)) \cup Keywords(Tail(sents))

ThematicSections == {"characteristics", "habitat", "cultural", "conservation"}

MinContentLength == 30

MaxCombinedLength == 1500

\* line 78 without the test of self.used_content_hashes
AlreadyUsedLocally(content_hash, st) == content_hash \in st.local_used_hashes

\* line 78: the content was used before, by another section or by this one
AlreadyUsed(content_hash, st) ==
  content_hash \in st.used_content_hashes \/ content_hash \in st.local_used_hashes

\* one pass of the loop of extract_section_content over research_data[i..];
\* st holds relevant_content, the indices of the items it came from,
\* local_used_hashes and self.used_content_hashes
RECURSIVE ExtractLoop(_, _, _, _, _)
ExtractLoop(research_data, i, section_type, max_items, st) ==
  IF i > Len(research_data) THEN st
  ELSE
    LET item == research_data[i]
        content == item.content
        content_hash == _hash_content(content)
        relevant ==
          IF section_type \in ThematicSections
          THEN section_type \in Keywords(content.sents) \/ item.type = section_type
          ELSE section_type = "general" /\ Len(st.relevant_content) < max_items
        taken == [relevant_content |-> Append(st.relevant_content, clean_text(content)),
                  chosen |-> Append(st.chosen, i),
                  local_used_hashes |-> st.local_used_hashes \cup {content_hash},
                  used_content_hashes |-> st.used_content_hashes \cup {content_hash}]
    IN  IF TextLen(content) = 0 \/ TextLen(content) < MinContentLength
        THEN ExtractLoop(research_data, i + 1, section_type, max_items, st)
        ELSE IF AlreadyUsed(content_hash, st)
        THEN ExtractLoop(research_data, i + 1, section_type, max_items, st)
        ELSE IF relevant
        THEN IF Len(taken.relevant_content) >= max_items
             THEN taken
             ELSE ExtractLoop(research_data, i + 1, section_type, max_items, taken)
        ELSE IF Len(st.relevant_content) >= max_items
             THEN st
             ELSE ExtractLoop(research_data, i + 1, section_type, max_items, st)

\* len(' '.join(relevant_content))
RECURSIVE JoinedLen(_)
JoinedLen(texts) ==
  IF texts = <<>> THEN 0
  ELSE TextLen(Head(texts)) + (IF Len(texts) > 1 THEN 1 ELSE 0) + JoinedLen(Tail(texts))

\* extract_section_content: the items chosen, the length of the combined
\* content returned (cut to 1500 characters plus "..."), and the new
\* self.used_content_hashes
extract_section_content(research_data, section_type, max_items, used_hashes) ==
  LET st == ExtractLoop(research_data, 1, section_type, max_items,
                        [relevant_content |-> <<>>, chosen |-> <<>>,
                         local_used_hashes |-> {},
                         used_content_hashes |-> used_hashes])
      joined == JoinedLen(st.relevant_content)
  IN  [chosen |-> st.chosen,
       length |-> IF joined > MaxCombinedLength THEN MaxCombinedLength + 3 ELSE joined,
       used_content_hashes |-> st.used_content_hashes]

Min(a, b) == IF a <= b THEN a ELSE b

Max(a, b) == IF a >= b THEN a ELSE b

MinSectionInput == 20

MaxChunk == 800

MinSummaryLength == 15

\* generate_section does not call the summarizer for short content
SummarizerInvoked(content_length) == content_length >= MinSectionInput

\* adjusted_max without the limit of max_length
AdjustedMaxUncapped(content_length, max_length, min_length) ==
  Max(min_length, Min(content_length, MaxChunk) \div 8)

\* the length parameters generate_section passes to the summarizer
AdjustedMax(content_length, max_length, min_length) ==
  Min(max_length, Max(min_length, Min(content_length, MaxChunk) \div 8))

AdjustedMin(content_length, max_length, min_length) ==
  Min(min_length, AdjustedMax(content_length, max_length, min_length) \div 2)

\* generate_section: outcome is what the summarizer does when called, raise
\* or return a text; an exception is caught and gives ""
generate_section(content_length, outcome) ==
  IF ~SummarizerInvoked(content_length) THEN EmptyText
  ELSE IF outcome.raises THEN EmptyText
  ELSE LET summary_text == clean_text(outcome.text)
       IN  IF TextLen(summary_text) > MinSummaryLength
           THEN summary_text
           ELSE EmptyText

\* the sections of generate_article in the order it builds them, with the
\* section_type and max_items given to extract_section_content, the
\* max_length and min_length given to generate_section, and prompt, the
\* number of characters of the prompt around plant_name
Sections ==
  << [key |-> "introduction", section_type |-> "general", max_items |-> 1, prompt |-> 101,
      max_length |-> 80, min_length |-> 40, title |-> Atom("h2_none", 0, {}), class |-> "intro"],
     [key |-> "characteristics", section_type |-> "characteristics", max_items |-> 2, prompt |-> 73,
      max_length |-> 100, min_length |-> 50,
      title |-> Atom("h2_distinctive_features", 20, {}), class |-> "section-characteristics"],
     [key |-> "habitat", section_type |-> "habitat", max_items |-> 2, prompt |-> 72,
      max_length |-> 100, min_length |-> 50,
      title |-> Atom("h2_natural_habitat_ecology", 25, {}), class |-> "section-habitat"],
     [key |-> "cultural", section_type |-> "cultural", max_items |-> 2, prompt |-> 95,
      max_length |-> 100, min_length |-> 50,
      title |-> Atom("h2_cultural_heritage", 36, {}), class |-> "section-cultural"],
     [key |-> "conservation", section_type |-> "conservation", max_items |-> 2, prompt |-> 55,
      max_length |-> 100, min_length |-> 50,
      title |-> Atom("h2_conservation_future", 31, {}), class |-> "section-conservation"] >>

\* the 'fallback' strings of sections_data, with their lengths in characters
FallbackTemplate(key, plant_name) ==
  CASE key = "introduction" ->
         << <<NameAtom(plant_name), Atom("fb_intro_1_1", 168, {})>> >>
    [] key = "characteristics" ->
         << <<Atom("fb_char_1_1", 210, {})>> >>
    [] key = "habitat" ->
         << <<Atom("fb_hab_1_1", 27, {}), NameAtom(plant_name),
              Atom("fb_hab_1_2", 180, {})>> >>
    [] key = "cultural" ->
         << <<Atom("fb_cult_1_1", 42, {}), NameAtom(plant_name),
              Atom("fb_cult_1_2", 150, {})>> >>
    [] key = "conservation" ->
         << <<Atom("fb_cons_1_1", 24, {}), NameAtom(plant_name),
              Atom("fb_cons_1_2", 195, {})>> >>
    [] key = "about" ->
         << <<Atom("fb_about_1_1", 13, {}), NameAtom(plant_name),
              Atom("fb_about_1_2", 69, {})>>,
            <<Atom("fb_about_2_1", 179, {})>> >>

FallbackText(key, plant_name) == Text(Instantiate(FallbackTemplate(key, plant_name)), TRUE)

\* section_info['content'] or section_info['fallback']
SectionText(content, key, plant_name) ==
  IF TextLen(content) > 0 THEN content ELSE FallbackText(key, plant_name)

(***************************************************************************)
(* create_html_paragraphs.  draws are the values random.randint(2, 4)      *)
(* returns, one for each sentence appended to the current paragraph.       *)
(***************************************************************************)
MinSentenceLength == 10

\* the ids of the atoms that end with an exclamation mark (counted in their
\* len); each is shorter than MinSentenceLength
Exclaimed == {"oh_my", "oh_no", "oh_ya"}

\* re.split(r'(?<=[.!?])\s+(?=[A-Z])') inside one sentence: a cut after every
\* atom that ends with an exclamation mark and has text after it; dot tells
\* whether the piece ends with the full stop of the sentence
RECURSIVE SentencePieces(_, _)
SentencePieces(words, dot) ==
  IF \E k \in 1..(Len(words) - 1) : words[k].id \in Exclaimed
  THEN LET k == CHOOSE k \in 1..(Len(words) - 1) :
                  /\ words[k].id \in Exclaimed
                  /\ \A j \in 1..(k - 1) : words[j].id \notin Exclaimed
       IN  <<[words |-> SubSeq(words, 1, k), dot |-> FALSE]>>
           \o SentencePieces(SubSeq(words, k + 1, Len(words)), dot)
  ELSE <<[words |-> words, dot |-> dot]>>

RECURSIVE SplitFrom(_, _)
SplitFrom(cleaned, i) ==
  IF i > Len(cleaned.sents) THEN <<>>
  ELSE SentencePieces(cleaned.sents[i], i < Len(cleaned.sents))
       \o SplitFrom(cleaned, i + 1)

\* the sentences re.split gives for a cleaned text: every sentence but the
\* last still ends with its full stop
SplitSentences(cleaned) == SplitFrom(cleaned, 1)

RECURSIVE ParagraphLoop(_, _, _, _, _, _, _)
ParagraphLoop(sentences, i, paragraphs, current_para, used_sentences, draws, d) ==
  IF i > Len(sentences)
  THEN IF current_para # <<>> THEN Append(paragraphs, current_para) ELSE paragraphs
  ELSE
    LET sentence == sentences[i]
        length == SentLen(sentence.words) + (IF sentence.dot THEN 1 ELSE 0)
        sentence_hash == _hash_content(sentence)
        para == Append(current_para, sentence.words)
    IN  IF length = 0 \/ length < MinSentenceLength
        THEN ParagraphLoop(sentences, i + 1, paragraphs, current_para,
                           used_sentences, draws, d)
        ELSE IF sentence_hash \in used_sentences
        THEN ParagraphLoop(sentences, i + 1, paragraphs, current_para,
                           used_sentences, draws, d)
        ELSE IF Len(para) >= draws[d]
        THEN ParagraphLoop(sentences, i + 1, Append(paragraphs, para), <<>>,
                           used_sentences \cup {sentence_hash}, draws, d + 1)
        ELSE ParagraphLoop(sentences, i + 1, paragraphs, para,
                           used_sentences \cup {sentence_hash}, draws, d + 1)

Paragraph(section_class, sents) == [kind |-> "p", class |-> section_class, sents |-> sents]

Heading(title) == [kind |-> "h2", class |-> "section-heading", sents |-> <<<<title>>>>]

\* the <p> blocks create_html_paragraphs returns; every sentence of a block
\* ends with a full stop
create_html_paragraphs(text, section_class, draws) ==
  IF TextLen(text) = 0 THEN <<>>
  ELSE LET groups == ParagraphLoop(SplitSentences(clean_text(text)), 1,
                                   <<>>, <<>>, {}, draws, 1)
       IN  [p \in 1..Len(groups) |-> Paragraph(section_class, groups[p])]

\* the possible draws for a text: one per sentence it can append
Draws(text) == [1..Len(SplitSentences(clean_text(text))) -> 2..4]

(***************************************************************************)
(* generate_article, lines 326-356: composing html_sections                *)
(***************************************************************************)
\* AddSection with the heading appended after the section's paragraphs
AddSectionHeadingLast(html_sections, used_section_content, section, text, draws) ==
  LET content_hash == _hash_content(text)
      paragraphs == create_html_paragraphs(text, section.class, draws)
  IN  IF TextLen(text) = 0 \/ content_hash \in used_section_content
      THEN [html_sections |-> html_sections,
            used_section_content |-> used_section_content]
      ELSE [html_sections |->
              html_sections
              \o paragraphs
              \o (IF section.key = "introduction" THEN <<>> ELSE <<Heading(section.title)>>),
            used_section_content |-> used_section_content \cup {content_hash}]

\* AddSection without the test of used_section_content
AddSectionAlways(html_sections, used_section_content, section, text, draws) ==
  LET content_hash == _hash_content(text)
      paragraphs == create_html_paragraphs(text, section.class, draws)
  IN  IF TextLen(text) = 0
      THEN [html_sections |-> html_sections,
            used_section_content |-> used_section_content]
      ELSE [html_sections |->
              html_sections
              \o (IF section.key = "introduction" THEN <<>> ELSE <<Heading(section.title)>>)
              \o paragraphs,
            used_section_content |-> used_section_content \cup {content_hash}]

\* one section added to html_sections: skipped when its text is empty or
\* its hash is in used_section_content; the introduction has no heading
AddSection(html_sections, used_section_content, section, text, draws) ==
  LET content_hash == _hash_content(text)
      paragraphs == create_html_paragraphs(text, section.class, draws)
  IN  IF TextLen(text) = 0 \/ content_hash \in used_section_content
      THEN [html_sections |-> html_sections,
            used_section_content |-> used_section_content]
      ELSE [html_sections |->
              html_sections
              \o (IF section.key = "introduction" THEN <<>> ELSE <<Heading(section.title)>>)
              \o paragraphs,
            used_section_content |-> used_section_content \cup {content_hash}]

MinBlocks == 4

AboutTitle == Atom("h2_about_this_species", 18, {})

\* lines 351-356: the extra block for a thin document
EnsureMinimumContent(html_sections, plant_name, draws) ==
  IF Len(html_sections) < MinBlocks
  THEN html_sections
       \o <<Heading(AboutTitle)>>
       \o create_html_paragraphs(FallbackText("about", plant_name), "fallback", draws)
  ELSE html_sections

(***************************************************************************)
(* Title and Jekyll front matter                                           *)
(***************************************************************************)
\* generate_title_variations: the text before and after the plant name
TitleVariations ==
  << <<Atom("title_1_pre", 11, {}), Atom("title_1_post", 36, {})>>,
     <<Atom("title_2_pre", 14, {}), Atom("title_2_post", 35, {})>>,
     <<Atom("title_3_pre", 0, {}),  Atom("title_3_post", 36, {})>>,
     <<Atom("title_4_pre", 9, {}),  Atom("title_4_post", 40, {})>>,
     <<Atom("title_5_pre", 0, {}),  Atom("title_5_post", 37, {})>>,
     <<Atom("title_6_pre", 12, {}), Atom("title_6_post", 24, {})>>,
     <<Atom("title_7_pre", 9, {}),  Atom("title_7_post", 36, {})>>,
     <<Atom("title_8_pre", 0, {}),  Atom("title_8_post", 44, {})>> >>

Digits == {"0", "1", "2", "3", "4", "5", "6", "7", "8", "9"}

\* the characters of [a-z0-9]
SlugChars == Digits \cup {LowerChars[i] : i \in 1..Len(LowerChars)}

SlugChar(c) == c \in SlugChars

\* re.sub(r'[^a-z0-9]+', '-', s): every run of other characters becomes '-'
RECURSIVE Dashed(_, _)
Dashed(chars, in_run) ==
  IF chars = <<>> THEN <<>>
  ELSE IF SlugChar(Head(chars)) THEN <<Head(chars)>> \o Dashed(Tail(chars), FALSE)
  ELSE IF in_run THEN Dashed(Tail(chars), TRUE)
  ELSE <<"-">> \o Dashed(Tail(chars), TRUE)

RECURSIVE StripDashes(_)
StripDashes(s) ==
  IF s # <<>> /\ Head(s) = "-" THEN StripDashes(Tail(s))
  ELSE IF s # <<>> /\ s[Len(s)] = "-" THEN StripDashes(SubSeq(s, 1, Len(s) - 1))
  ELSE s

Slug(plant_name) == StripDashes(Dashed(lower(plant_name), FALSE))

SlugAtom(plant_name) ==
  [id |-> "slug", len |-> Len(Slug(plant_name)), kw |-> {}, text |-> Slug(plant_name)]

\* generate_jekyll_front_matter as the stretches of text between its full
\* stops (".jpg", the end of the description); the last stretch runs on
\* into the article body
generate_jekyll_front_matter(plant_name, title) ==
  Instantiate(
    << <<Atom("fm_head", 25, {}), TitleVariations[title][1], NameAtom(plant_name),
         TitleVariations[title][2], Atom("fm_fields", 133, {}), NameAtom(plant_name),
         Atom("fm_slug", 9, {}), SlugAtom(plant_name), Atom("fm_image", 41, {}),
         SlugAtom(plant_name)>>,
       <<Atom("fm_description", 42, {}), NameAtom(plant_name),
         Atom("fm_description_2", 93, {})>>,
       <<Atom("fm_author", 38, {})>> >>)

\* the article text: the front matter (or nothing) and the blocks
Article(front_matter, blocks) == [front_matter |-> front_matter, blocks |-> blocks]

(***************************************************************************)
(* _validate_no_duplicates                                                 *)
(***************************************************************************)
\* the variant spellings of a wording that differ from it only in case
CaseVariants ==
  [shared_sentence_caps |-> "shared_sentence",
   body_features_1_caps |-> "body_features_1"]

LowerId(id) == IF id \in DOMAIN CaseVariants THEN CaseVariants[id] ELSE id

LowerAtom(a) == [a EXCEPT !.id = LowerId(a.id), !.text = lower(a.text)]

LowerSentence(s) == [i \in 1..Len(s) |-> LowerAtom(s[i])]

\* re.split(r'[.!?]+', article) with the tags removed: a heading has no
\* full stop, so its title runs on into the first sentence of the next
\* paragraph, as does the end of the front matter
RECURSIVE BodySegments(_, _)
BodySegments(blocks, carry) ==
  IF blocks = <<>> THEN (IF carry = <<>> THEN <<>> ELSE <<carry>>)
  ELSE LET b == Head(blocks)
       IN  IF b.kind = "h2"
           THEN BodySegments(Tail(blocks), carry \o b.sents[1])
           ELSE <<carry \o b.sents[1]>> \o Tail(b.sents)
                \o BodySegments(Tail(blocks), <<>>)

ArticleSegments(article) ==
  IF article.front_matter = <<>> THEN BodySegments(article.blocks, <<>>)
  ELSE SubSeq(article.front_matter, 1, Len(article.front_matter) - 1)
       \o BodySegments(article.blocks, article.front_matter[Len(article.front_matter)])

SubstantialLength == 20

RECURSIVE ValidateLoop(_, _, _)
ValidateLoop(sentences, i, sentence_hashes) ==
  IF i > Len(sentences) THEN TRUE
  ELSE LET clean_sentence == sentences[i]
           sentence_hash == _hash_content(LowerSentence(clean_sentence))
       IN  IF SentLen(clean_sentence) > SubstantialLength
           THEN IF sentence_hash \in sentence_hashes THEN FALSE
                ELSE ValidateLoop(sentences, i + 1, sentence_hashes \cup {sentence_hash})
           ELSE ValidateLoop(sentences, i + 1, sentence_hashes)

_validate_no_duplicates(article) == ValidateLoop(ArticleSegments(article), 1, {})

\* _generate_fallback_article: the blocks of the template-only article
_generate_fallback_article(plant_name) ==
  << Paragraph("intro",
       Instantiate(<< <<NameAtom(plant_name), Atom("fa_intro_1_1", 170, {})>> >>)),
     Heading(Atom("h2_flora_heritage", 28, {})),
     Paragraph("section-heritage",
       Instantiate(<< <<Atom("fa_heritage_1_1", 50, {}), NameAtom(plant_name),
                        Atom("fa_heritage_1_2", 130, {})>> >>)),
     Heading(Atom("h2_ecological_significance", 23, {})),
     Paragraph("section-ecology",
       Instantiate(<< <<Atom("fa_ecology_1_1", 28, {}), NameAtom(plant_name),
                        Atom("fa_ecology_1_2", 142, {})>> >>)),
     Heading(Atom("h2_conservation_importance", 23, {})),
     Paragraph("section-conservation",
       Instantiate(<< <<Atom("fa_cons_1_1", 51, {}), NameAtom(plant_name),
                        Atom("fa_cons_1_2", 121, {})>> >>)) >>

(***************************************************************************)
(* Search terms given to the matcher: every catalog name, upper-case and   *)
(* padded spellings, the cases of test_fuzzy_search, and unmatched input.  *)
(***************************************************************************)
upper(s) ==
  [i \in 1..Len(s) |->
     IF \E k \in 1..Len(LowerChars) : LowerChars[k] = s[i]
     THEN UpperChars[CHOOSE k \in 1..Len(LowerChars) : LowerChars[k] = s[i]]
     ELSE s[i]]

CatalogNames ==
  UNION {{SA_PLANTS[p].names[n] : n \in 1..Len(SA_PLANTS[p].names)} :
         p \in 1..Len(SA_PLANTS)}

ExtraTerms ==
  {<<"K","i","n","g"," ","P","r","o","t","e","a">>,
   <<" ","A","l","o","e"," ","F","e","r","o","x"," ">>,
   <<"b","i","r","d"," ","p","a","r","a","d","i","s","e">>,
   <<"h","o","n","e","y","b","u","s","h"," ","t","e","a">>,
   <<"U","n","k","n","o","w","n"," ","P","l","a","n","t"," ","X","y","z">>,
   <<"r","e","d">>,
   <<"a","l","o","e">>,
   <<"x","y","z">>,
   <<" ","X","y","Z"," ">>,
   <<>>}

SearchTerms ==
  CatalogNames
  \cup {upper(SA_PLANTS[p].names[1]) : p \in 1..Len(SA_PLANTS)}
  \cup ExtraTerms


(***************************************************************************)
(* PlantNameMatcher.get_search_variations                                  *)
(***************************************************************************)
MaxMatchesUsed == 3

MaxCommonNames == 2

MaxVariations == 5

\* lines 168-179: what one match adds to variations
MatchVariations(match) ==
  <<match.scientific_name>>
  \o SubSeq(match.common_names, 1, Min(MaxCommonNames, Len(match.common_names)))
  \o <<match.matched_name>>

RECURSIVE CandidateVariations(_, _)
CandidateVariations(matches, n) ==
  IF n = 0 THEN <<>>
  ELSE CandidateVariations(matches, n - 1) \o MatchVariations(matches[n])

\* AddUnique comparing the spellings as they are
AddUniqueExact(unique_variations, var) ==
  IF \E i \in 1..Len(unique_variations) : unique_variations[i] = strip(var)
  THEN unique_variations
  ELSE Append(unique_variations, var)

\* lines 183-186: var is kept unless var.lower().strip() equals the lower()
\* of a variation kept before it
AddUnique(unique_variations, var) ==
  IF \E i \in 1..Len(unique_variations) :
       lower(unique_variations[i]) = strip(lower(var))
  THEN unique_variations
  ELSE Append(unique_variations, var)

RECURSIVE UniqueVariations(_, _)
UniqueVariations(variations, n) ==
  IF n = 0 THEN <<>>
  ELSE AddUnique(UniqueVariations(variations, n - 1), variations[n])

\* VariationsFrom with plant_name appended after the names of the matches
VariationsRawLast(plant_name, matches) ==
  LET variations ==
        CandidateVariations(matches, Min(MaxMatchesUsed, Len(matches)))
        \o <<plant_name>>
      unique_variations == UniqueVariations(variations, Len(variations))
  IN  SubSeq(unique_variations, 1, Min(MaxVariations, Len(unique_variations)))

\* the part of get_search_variations after the call of fuzzy_match
VariationsFrom(plant_name, matches) ==
  LET variations ==
        <<plant_name>>
        \o CandidateVariations(matches, Min(MaxMatchesUsed, Len(matches)))
      unique_variations == UniqueVariations(variations, Len(variations))
  IN  SubSeq(unique_variations, 1, Min(MaxVariations, Len(unique_variations)))

get_search_variations(plant_name) ==
  CHOOSE variations \in
    {VariationsFrom(plant_name, ms) : ms \in {fuzzy_match(plant_name, LowThreshold)}} : TRUE

(***************************************************************************)
(* Inputs of the collector and the generator                               *)
(***************************************************************************)
KingProtea == <<"k","i","n","g"," ","p","r","o","t","e","a">>

ProteaCynaroides ==
  <<"P","r","o","t","e","a"," ","c","y","n","a","r","o","i","d","e","s">>

UnknownPlant ==
  <<"U","n","k","n","o","w","n"," ","P","l","a","n","t"," ","X","y","z">>

Rooibos == <<"R","o","o","i","b","o","s">>

\* a name with full stops around a part of more than 20 characters
DottedName ==
  <<"A","l","o","e"," ","s","p",".",
    " ","N","o","v","a"," ","v","a","r","i","e","t","a","s"," ",
    "c","a","p","e","n","s","i","s",".",
    " ","M","i","l","l">>

CollectorNames == {KingProtea, UnknownPlant, Rooibos, <<>>}

GeneratorNames == {<<>>, KingProtea, DottedName}

BodyGeneral ==
  Text(<< <<Atom("body_general_1", 80, {})>>,
          <<Atom("body_general_2", 60, {})>> >>, TRUE)

BodyFeatures ==
  Text(<< <<Atom("body_features_1", 90, {"characteristics"})>>,
          <<Atom("body_features_2", 70, {"habitat"})>> >>, TRUE)

BodyShort == Text(<< <<Atom("body_short_1", 24, {"conservation"})>> >>, TRUE)

\* records as research_plant formats them; the first and the third have
\* byte-identical bodies
RecordPool ==
  {Record("Wikipedia", "general_info", BodyGeneral),
   Record("OpenAlex", "characteristics", BodyFeatures),
   Record("PubMed", "cultural", BodyGeneral),
   Record("PubMed", "benefits", BodyShort)}

MaxRecords == 2

RECURSIVE SeqsUpTo(_, _)
SeqsUpTo(S, n) ==
  IF n = 0 THEN {<<>>}
  ELSE LET shorter == SeqsUpTo(S, n - 1)
       IN  shorter \cup {Append(s, x) : s \in shorter, x \in S}

ResearchInputs == SeqsUpTo(RecordPool, MaxRecords)

\* what the summarizer returns when it does not raise: two summaries that
\* share a sentence, the second in another spelling of it
SummaryA ==
  Text(<< <<Atom("shared_sentence", 48, {})>>,
          <<Atom("summary_a_2", 55, {})>> >>, TRUE)

SummaryB ==
  Text(<< <<Atom("summary_b_1", 52, {})>>,
          <<Atom("shared_sentence_caps", 48, {})>> >>, TRUE)

Raises == [raises |-> TRUE, text |-> EmptyText]

Returns(text) == [raises |-> FALSE, text |-> text]

SummarizerOutcomes == {Raises, Returns(SummaryA), Returns(SummaryB)}

VARIABLES
  \* PlantNameMatcher.fuzzy_match
  search_term,          \* its argument
  threshold,            \* its threshold argument
  matches,              \* the list it returns
  variations,           \* the list get_search_variations returns
  m_pc,                 \* "call", then "done" (fuzzy_match) or "varied"
  \* ResearchCollector.collect_research
  c_plant_name,         \* its argument
  all_content,          \* the list it builds and returns
  adapter_log,          \* the adapters called so far and how each call went
  c_pc,                 \* the adapter to call next, "finish", "done"
  \* ArticleGenerator.generate_article
  research_data,        \* its arguments
  plant_name,
  used_content_hashes,  \* self.used_content_hashes, kept between calls
  section_index,        \* the section being built or composed
  selected,             \* per section, the indices of the items extracted
  sections_content,     \* per section, sections_data[key]['content']
  summarizer_calls,     \* the calls of self.summarizer in this call
  html_sections,
  used_section_content,
  result,               \* how the call ended and the article it returned
  entry_dirty,          \* whether self.used_content_hashes held hashes on entry
  g_pc,                 \* "sections", "compose", "minimum", "validate", "done"
  \* generate_plant_article and research_plant
  e_plant_name,         \* the argument of generate_plant_article
  e_matches,            \* matches of research_plant
  wiki_plant_name,      \* the Wikipedia title research_plant found, <<>> for None
  research_plant_name,  \* the name research_plant collects research for
  e_research_data,      \* the list research_plant returns
  full_article,         \* the article generate_plant_article builds
  e_returned,           \* what generate_plant_article returned, a list of one or none
  saved_posts,          \* the files written to the posts directory
  e_pc,                 \* "research", "generate", "save", "done"
  \* two generate_article calls with the same arguments
  stub,                 \* the summarizer: per section, what it does when called
  run,                  \* the number of calls started
  first_run,            \* what the first call selected and returned
  \* one call of an adapter of ResearchCollector
  a_adapter,            \* the adapter called
  a_variations,         \* the number of search variations of the name
  a_index,              \* the variation or URL the loop is at
  requests_log,         \* the GETs sent and the sleeps made, in order
  a_results,            \* the results built so far
  a_pc,                 \* "loop", "done"
  \* two calls of generate_article on one instance
  t_research_data,      \* per call, its research_data
  t_selected,           \* per call and section, the indices of the items extracted
  t_pc                  \* per call, 0 before the reset, then the section to extract

matcher_vars == <<search_term, threshold, matches, variations, m_pc>>

collector_vars == <<c_plant_name, all_content, adapter_log, c_pc>>

generator_vars ==
  <<research_data, plant_name, used_content_hashes, section_index, selected,
    sections_content, summarizer_calls, html_sections, used_section_content,
    result, entry_dirty, g_pc>>

entry_vars ==
  <<e_plant_name, e_matches, wiki_plant_name, research_plant_name,
    e_research_data, full_article, e_returned, saved_posts, e_pc>>

runs_vars == <<stub, run, first_run>>

adapters_vars == <<a_adapter, a_variations, a_index, requests_log, a_results, a_pc>>

threads_vars == <<t_research_data, t_selected, t_pc>>

vars ==
  <<matcher_vars, collector_vars, generator_vars, entry_vars, runs_vars,
    adapters_vars, threads_vars>>

NoResult == [outcome |-> "none", include_front_matter |-> FALSE, blocks |-> <<>>]

MatcherIdle ==
  /\ search_term = <<>>
  /\ threshold = DefaultThreshold
  /\ matches = <<>>
  /\ variations = <<>>
  /\ m_pc = "idle"

EntryIdle ==
  /\ e_plant_name = <<>>
  /\ e_matches = <<>>
  /\ wiki_plant_name = <<>>
  /\ research_plant_name = <<>>
  /\ e_research_data = <<>>
  /\ full_article = <<>>
  /\ e_returned = <<>>
  /\ saved_posts = {}
  /\ e_pc = "idle"

NoRun ==
  [selected |-> <<>>, headings |-> <<>>, sentences |-> {}, outcome |-> "none",
   include_front_matter |-> FALSE]

AdaptersIdle ==
  /\ a_adapter = "none"
  /\ a_variations = 0
  /\ a_index = 1
  /\ requests_log = <<>>
  /\ a_results = <<>>
  /\ a_pc = "idle"

ThreadsIdle ==
  /\ t_research_data = <<>>
  /\ t_selected = <<>>
  /\ t_pc = <<>>

RunsIdle ==
  /\ stub = <<>>
  /\ run = 0
  /\ first_run = NoRun

CollectorIdle ==
  /\ c_plant_name = <<>>
  /\ all_content = <<>>
  /\ adapter_log = <<>>
  /\ c_pc = "idle"

\* ArticleGenerator.__init__
GeneratorIdle ==
  /\ research_data = <<>>
  /\ plant_name = <<>>
  /\ used_content_hashes = {}
  /\ section_index = 1
  /\ selected = <<>>
  /\ sections_content = <<>>
  /\ summarizer_calls = <<>>
  /\ html_sections = <<>>
  /\ used_section_content = {}
  /\ result = NoResult
  /\ entry_dirty = FALSE
  /\ g_pc = "idle"

(***************************************************************************)
(* The matcher: one call of fuzzy_match or of get_search_variations.       *)
(***************************************************************************)
InitMatcher ==
  /\ search_term \in SearchTerms
  /\ threshold \in {DefaultThreshold, LowThreshold}
  /\ matches = <<>>
  /\ variations = <<>>
  /\ m_pc = "call"
  /\ CollectorIdle
  /\ GeneratorIdle
  /\ EntryIdle
  /\ RunsIdle
  /\ AdaptersIdle
  /\ ThreadsIdle

FuzzyMatch ==
  /\ m_pc = "call"
  /\ matches' = fuzzy_match(search_term, threshold)
  /\ m_pc' = "done"
  /\ UNCHANGED <<search_term, threshold, variations, collector_vars, generator_vars, entry_vars, runs_vars, adapters_vars, threads_vars>>

\* a call of get_search_variations(search_term); it passes its own threshold
\* to fuzzy_match
GetSearchVariations ==
  /\ m_pc = "call"
  /\ variations' = get_search_variations(search_term)
  /\ m_pc' = "varied"
  /\ UNCHANGED <<search_term, threshold, matches, collector_vars, generator_vars, entry_vars, runs_vars, adapters_vars, threads_vars>>

NextMatcher ==
  \/ FuzzyMatch
  \/ GetSearchVariations

SpecMatcher == InitMatcher /\ [][NextMatcher]_vars

(***************************************************************************)
(* The collector: one call of collect_research per behaviour, one step per *)
(* adapter call.                                                           *)
(***************************************************************************)
InitCollector ==
  /\ c_plant_name \in CollectorNames
  /\ all_content = <<>>
  /\ adapter_log = <<>>
  /\ c_pc = "wikipedia"
  /\ MatcherIdle
  /\ GeneratorIdle
  /\ EntryIdle
  /\ RunsIdle
  /\ AdaptersIdle
  /\ ThreadsIdle

Logged(adapter, outcome) == Append(adapter_log, <<adapter, outcome>>)

\* lines 587-591
CollectWikipedia ==
  /\ c_pc = "wikipedia"
  /\ \E outcome \in {"found", "empty", "nothing", "failed"} :
       LET wiki_content == get_wikipedia_content(outcome)
       IN  /\ all_content' =
                IF wiki_content # <<>> /\ TextLen(wiki_content[1].content) > 0
                THEN Append(all_content, wiki_content[1])
                ELSE all_content
           /\ adapter_log' = Logged("wikipedia", outcome)
  /\ c_pc' = "pubmed"
  /\ UNCHANGED <<c_plant_name, matcher_vars, generator_vars, entry_vars, runs_vars, adapters_vars, threads_vars>>

\* the call of an adapter without the try of lines 593 and 602: an
\* exception of the adapter ends collect_research
AbortOnRaise(call, next) == IF call.raised THEN "aborted" ELSE next

\* the try/except of lines 593-600 and 602-609: an exception of the adapter
\* is printed and collect_research goes on with the next adapter
AfterCall(call, next) == next

\* lines 593-600
CollectPubMed ==
  /\ c_pc = "pubmed"
  /\ \E outcome \in AdapterOutcomes :
       LET call == search_pubmed(outcome)
       IN  /\ all_content' =
                IF ~call.raised /\ call.results # <<>>
                THEN all_content \o call.results
                ELSE all_content
           /\ adapter_log' = Logged("pubmed", outcome)
           /\ c_pc' = AfterCall(call, "openalex")
  /\ UNCHANGED <<c_plant_name, matcher_vars, generator_vars, entry_vars, runs_vars, adapters_vars, threads_vars>>

\* lines 602-609
CollectOpenAlex ==
  /\ c_pc = "openalex"
  /\ \E outcome \in AdapterOutcomes :
       LET call == search_openalex(outcome)
       IN  /\ all_content' =
                IF ~call.raised /\ call.results # <<>>
                THEN all_content \o call.results
                ELSE all_content
           /\ adapter_log' = Logged("openalex", outcome)
           /\ c_pc' = AfterCall(call, "botanical")
  /\ UNCHANGED <<c_plant_name, matcher_vars, generator_vars, entry_vars, runs_vars, adapters_vars, threads_vars>>

\* lines 611-615
CollectBotanical ==
  /\ c_pc = "botanical"
  /\ \E outcome \in {"found", "nothing", "failed"} :
       LET botanical_content == search_botanical_sites(outcome)
       IN  /\ all_content' =
                IF botanical_content # <<>>
                THEN all_content \o botanical_content
                ELSE all_content
           /\ adapter_log' = Logged("botanical", outcome)
  /\ c_pc' = "finish"
  /\ UNCHANGED <<c_plant_name, matcher_vars, generator_vars, entry_vars, runs_vars, adapters_vars, threads_vars>>

\* lines 617-625
CollectFinish ==
  /\ c_pc = "finish"
  /\ all_content' = WithFallback(all_content, c_plant_name)
  /\ c_pc' = "done"
  /\ UNCHANGED <<c_plant_name, adapter_log, matcher_vars, generator_vars, entry_vars, runs_vars, adapters_vars, threads_vars>>

NextCollector ==
  \/ CollectWikipedia
  \/ CollectPubMed
  \/ CollectOpenAlex
  \/ CollectBotanical
  \/ CollectFinish

SpecCollector == InitCollector /\ [][NextCollector]_vars

(***************************************************************************)
(* The generator: any number of generate_article calls on one              *)
(* ArticleGenerator, each call one step per section built, one per section *)
(* composed, one for the minimum-content block and one for the validation. *)
(***************************************************************************)
Init ==
  /\ GeneratorIdle
  /\ MatcherIdle
  /\ CollectorIdle
  /\ EntryIdle
  /\ RunsIdle
  /\ AdaptersIdle
  /\ ThreadsIdle

\* line 262 left out: the set is kept from the call before
KeptHashes(old) == old

\* line 262: self.used_content_hashes = set()
FreshHashes(old) == {}

\* lines 256-262: the input check and the reset
GenerateArticleStart ==
  /\ g_pc \in {"idle", "done"}
  /\ \E data \in ResearchInputs, name \in GeneratorNames :
       /\ research_data' = data
       /\ plant_name' = name
       /\ IF data = <<>> \/ name = <<>>
          THEN /\ result' = [NoResult EXCEPT !.outcome = "raised"]
               /\ g_pc' = "done"
               /\ UNCHANGED used_content_hashes
          ELSE /\ result' = NoResult
               /\ g_pc' = "sections"
               /\ used_content_hashes' = FreshHashes(used_content_hashes)
  /\ entry_dirty' = (used_content_hashes # {})
  /\ section_index' = 1
  /\ selected' = <<>>
  /\ sections_content' = <<>>
  /\ summarizer_calls' = <<>>
  /\ html_sections' = <<>>
  /\ used_section_content' = {}
  /\ UNCHANGED <<matcher_vars, collector_vars, entry_vars, runs_vars, adapters_vars, threads_vars>>

\* len(". Based on this information: "), line 144
PromptJoinLength == 29

\* the call of self.summarizer made by generate_section, lines 144-158:
\* content is the length of the content generate_section was given,
\* input_text the length of the text handed over and length the length of
\* the content inside it
SummarizerCall(section, name, content_length, outcome) ==
  [section    |-> section.key,
   input_text |-> section.prompt + Len(name) + PromptJoinLength
                    + Min(content_length, MaxChunk),
   content    |-> content_length,
   length     |-> Min(content_length, MaxChunk),
   max_length |-> AdjustedMax(content_length, section.max_length, section.min_length),
   min_length |-> AdjustedMin(content_length, section.max_length, section.min_length),
   raised     |-> outcome.raises]

\* lines 264-324: one entry of sections_data, extract_section_content and
\* then generate_section
BuildSectionWith(outcomes) ==
  /\ g_pc = "sections"
  /\ LET section == Sections[section_index]
         extracted == extract_section_content(research_data, section.section_type,
                                              section.max_items, used_content_hashes)
         invoked == SummarizerInvoked(extracted.length)
     IN  /\ \E outcome \in (IF invoked THEN outcomes ELSE {Raises}) :
              /\ sections_content' =
                   Append(sections_content, generate_section(extracted.length, outcome))
              /\ summarizer_calls' =
                   IF invoked
                   THEN Append(summarizer_calls,
                               SummarizerCall(section, plant_name, extracted.length,
                                              outcome))
                   ELSE summarizer_calls
         /\ selected' = Append(selected, extracted.chosen)
         /\ used_content_hashes' = extracted.used_content_hashes
  /\ IF section_index = Len(Sections)
     THEN g_pc' = "compose" /\ section_index' = 1
     ELSE g_pc' = "sections" /\ section_index' = section_index + 1
  /\ UNCHANGED <<research_data, plant_name, html_sections, used_section_content,
                 result, entry_dirty, matcher_vars, collector_vars, entry_vars, runs_vars, adapters_vars, threads_vars>>

\* a summarizer that may raise or return any of the summaries at each call
BuildSection == BuildSectionWith(SummarizerOutcomes)

\* lines 326-349: one section added to html_sections
ComposeSection ==
  /\ g_pc = "compose"
  /\ LET section == Sections[section_index]
         text == SectionText(sections_content[section_index], section.key, plant_name)
     IN  \E draws \in Draws(text) :
           LET added == AddSection(html_sections, used_section_content,
                                   section, text, draws)
           IN  /\ html_sections' = added.html_sections
               /\ used_section_content' = added.used_section_content
  /\ IF section_index = Len(Sections)
     THEN g_pc' = "minimum" /\ section_index' = 1
     ELSE g_pc' = "compose" /\ section_index' = section_index + 1
  /\ UNCHANGED <<research_data, plant_name, used_content_hashes, selected,
                 sections_content, summarizer_calls, result, entry_dirty,
                 matcher_vars, collector_vars, entry_vars, runs_vars, adapters_vars, threads_vars>>

\* lines 351-356
EnsureMinimum ==
  /\ g_pc = "minimum"
  /\ IF Len(html_sections) < MinBlocks
     THEN \E draws \in Draws(FallbackText("about", plant_name)) :
            html_sections' = EnsureMinimumContent(html_sections, plant_name, draws)
     ELSE UNCHANGED html_sections
  /\ g_pc' = "validate"
  /\ UNCHANGED <<research_data, plant_name, used_content_hashes, section_index,
                 selected, sections_content, summarizer_calls,
                 used_section_content, result, entry_dirty,
                 matcher_vars, collector_vars, entry_vars, runs_vars, adapters_vars, threads_vars>>

FrontMatter(include_front_matter, name, title) ==
  IF include_front_matter THEN generate_jekyll_front_matter(name, title) ELSE <<>>

\* lines 374-378 without the validation: the composed article is returned
ReturnComposed(valid, include_front_matter, blocks, name) ==
  [outcome |-> "accept", include_front_matter |-> include_front_matter,
   blocks |-> blocks]

\* lines 374-378: the composed article, or the fallback article
ReturnArticle(valid, include_front_matter, blocks, name) ==
  IF valid
  THEN [outcome |-> "accept", include_front_matter |-> include_front_matter,
        blocks |-> blocks]
  ELSE [outcome |-> "fallback", include_front_matter |-> include_front_matter,
        blocks |-> _generate_fallback_article(name)]

\* lines 358-378: the title, the front matter, the validation and the return
ValidateAndReturn ==
  /\ g_pc = "validate"
  /\ \E selected_title \in 1..Len(TitleVariations), include_front_matter \in BOOLEAN :
       LET final_article ==
             Article(FrontMatter(include_front_matter, plant_name, selected_title),
                     html_sections)
       IN  result' = ReturnArticle(_validate_no_duplicates(final_article),
                                   include_front_matter, html_sections, plant_name)
  /\ g_pc' = "done"
  /\ UNCHANGED <<research_data, plant_name, used_content_hashes, section_index,
                 selected, sections_content, summarizer_calls, html_sections,
                 used_section_content, entry_dirty, matcher_vars, collector_vars, entry_vars, runs_vars, adapters_vars, threads_vars>>

Next ==
  \/ GenerateArticleStart
  \/ BuildSection
  \/ ComposeSection
  \/ EnsureMinimum
  \/ ValidateAndReturn

Spec == Init /\ [][Next]_vars


(***************************************************************************)
(* research_plant and generate_plant_article: the entry point researches   *)
(* the plant, generates the article and saves it, inside one try/except.   *)
(***************************************************************************)
\* research_plant, line 711: best_match['similarity'] >= 0.8
HighConfidence == [num |-> 8, den |-> 10]

\* research_plant, line 715: best_match['similarity'] >= 0.6
MediumConfidence == [num |-> 6, den |-> 10]

\* the choice with the Wikipedia title left unused
ChooseWithoutWikipedia(name, found, wiki_title) ==
  IF found # <<>>
  THEN IF FracGeq(found[1].similarity, HighConfidence)
       THEN found[1].scientific_name
       ELSE found[1].matched_name
  ELSE name

\* research_plant, lines 706-738: the name the research is collected for;
\* wiki_title is <<>> when Wikipedia gave no page or a page without title
ChooseResearchName(name, found, wiki_title) ==
  IF found # <<>>
  THEN IF FracGeq(found[1].similarity, HighConfidence)
       THEN found[1].scientific_name
       ELSE IF FracGeq(found[1].similarity, MediumConfidence)
       THEN found[1].matched_name
       ELSE IF wiki_title # <<>>
       THEN wiki_title
       ELSE found[1].matched_name
  ELSE IF wiki_title # <<>>
  THEN wiki_title
  ELSE name

\* the title of the page Wikipedia has, when it has one
WikiTitle == <<"F","y","n","b","o","s"," ","f","l","o","r","a">>

\* what get_wikipedia_content gives research_plant: None, a page whose
\* title is empty, a page with a title
WikiTitles == {"none", "untitled", "titled"}

\* lines 699-703
WikiPlantName(wiki) == IF wiki = "titled" THEN WikiTitle ELSE <<>>

\* collect_research as research_plant calls it: the four adapters in turn,
\* outcomes[k] being how the k-th adapter call went, then the fallback
collect_research(name, outcomes) ==
  LET wiki_content == get_wikipedia_content(outcomes[1])
      pubmed_results == search_pubmed(outcomes[2])
      openalex_results == search_openalex(outcomes[3])
      botanical_content == search_botanical_sites(outcomes[4])
  IN  WithFallback(
        (IF wiki_content # <<>> /\ TextLen(wiki_content[1].content) > 0
         THEN wiki_content ELSE <<>>)
        \o (IF pubmed_results.raised THEN <<>> ELSE pubmed_results.results)
        \o (IF openalex_results.raised THEN <<>> ELSE openalex_results.results)
        \o botanical_content,
        name)

\* the adapter outcomes of a research: every source has the plant, or none
\* can be reached
ResearchOutcomes ==
  { <<"found", "found", "found", "found">>,
    <<"failed", "raised", "raised", "failed">> }

\* the names given to generate_plant_article
EntryNames ==
  ExtraTerms
  \cup {SA_PLANTS[p].names[n] : p \in 1..2, n \in 1..2}
  \cup {KingProtea, upper(KingProtea)}

InitEntry ==
  /\ e_plant_name \in EntryNames
  /\ e_matches = <<>>
  /\ wiki_plant_name = <<>>
  /\ research_plant_name = <<>>
  /\ e_research_data = <<>>
  /\ full_article = <<>>
  /\ e_returned = <<>>
  /\ saved_posts = {}
  /\ e_pc = "research"
  /\ MatcherIdle
  /\ CollectorIdle
  /\ GeneratorIdle
  /\ RunsIdle
  /\ AdaptersIdle
  /\ ThreadsIdle

\* generate_plant_article, lines 150-158: research_plant(plant_name), lines
\* 689-776; an error writing the JSON files leaves research_plant by an
\* exception, which the except of lines 225-229 turns into False
ResearchPlant ==
  /\ e_pc = "research"
  /\ \E found \in {fuzzy_match(e_plant_name, LowThreshold)}, wiki \in WikiTitles :
       /\ e_matches' = found
       /\ wiki_plant_name' = WikiPlantName(wiki)
       /\ research_plant_name' =
            ChooseResearchName(e_plant_name, found, WikiPlantName(wiki))
  /\ \E outcomes \in ResearchOutcomes, json_saved \in BOOLEAN :
       IF json_saved
       THEN /\ e_research_data' = collect_research(research_plant_name', outcomes)
            /\ e_pc' = "generate"
            /\ UNCHANGED e_returned
       ELSE /\ e_returned' = <<FALSE>>
            /\ e_pc' = "done"
            /\ UNCHANGED e_research_data
  /\ UNCHANGED <<e_plant_name, full_article, saved_posts,
                 matcher_vars, collector_vars, generator_vars, runs_vars, adapters_vars, threads_vars>>

\* generate_plant_article, lines 173-197, the branch taken for
\* research_v2.generator (generator_imported == "functions"): generate_article
\* and generate_plant_title each construct an ArticleGenerator, whose
\* _load_model re-raises a failure to load the model; generate_article
\* raises ValueError for empty research data or an empty name and else returns
\* the composed or the template article
GenerateArticle ==
  /\ e_pc = "generate"
  /\ \E model_loaded \in BOOLEAN, kind \in {"composed", "template"} :
       IF ~model_loaded \/ e_research_data = <<>> \/ e_plant_name = <<>>
       THEN /\ e_returned' = <<FALSE>>
            /\ e_pc' = "done"
            /\ UNCHANGED full_article
       ELSE /\ full_article' = <<[kind |-> kind, plant_name |-> e_plant_name]>>
            /\ e_pc' = "save"
            /\ UNCHANGED e_returned
  /\ UNCHANGED <<e_plant_name, e_matches, wiki_plant_name, research_plant_name,
                 e_research_data, saved_posts,
                 matcher_vars, collector_vars, generator_vars, runs_vars, adapters_vars, threads_vars>>

\* generate_plant_article, lines 200-229: the article is written to the posts
\* directory and True returned; an error writing it gives False
SaveArticle ==
  /\ e_pc = "save"
  /\ \E written \in BOOLEAN :
       IF written
       THEN /\ saved_posts' = saved_posts \cup {full_article[1]}
            /\ e_returned' = <<TRUE>>
       ELSE /\ e_returned' = <<FALSE>>
            /\ UNCHANGED saved_posts
  /\ e_pc' = "done"
  /\ UNCHANGED <<e_plant_name, e_matches, wiki_plant_name, research_plant_name,
                 e_research_data, full_article,
                 matcher_vars, collector_vars, generator_vars, runs_vars, adapters_vars, threads_vars>>

NextEntry ==
  \/ ResearchPlant
  \/ GenerateArticle
  \/ SaveArticle

SpecEntry == InitEntry /\ [][NextEntry]_vars


(***************************************************************************)
(* Two generate_article calls on one ArticleGenerator with the same        *)
(* arguments and a summarizer that answers the same input the same way.    *)
(* The prompt names the section, and the content of a section is the same  *)
(* in both calls, so the summarizer is a function of the section.          *)
(***************************************************************************)
BodyHabitat == Text(<< <<Atom("body_habitat_1", 85, {"habitat"})>> >>, TRUE)

BodyCultural == Text(<< <<Atom("body_cultural_1", 75, {"cultural"})>> >>, TRUE)

\* one record for each of the first four sections, none for conservation
FullData ==
  << Record("Wikipedia", "general_info", BodyGeneral),
     Record("OpenAlex", "characteristics", BodyFeatures),
     Record("pza.sanbi.org", "habitat", BodyHabitat),
     Record("PubMed", "cultural", BodyCultural) >>

\* bodies of 900 and of 1000 characters
BodyLong ==
  Text(<< <<Atom("body_long_1", 450, {})>>, <<Atom("body_long_2", 447, {})>> >>, TRUE)

BodyLongFeatures ==
  Text(<< <<Atom("body_long_features_1", 500, {"characteristics"})>>,
          <<Atom("body_long_features_2", 497, {})>> >>, TRUE)

BodyLongForm ==
  Text(<< <<Atom("body_long_form_1", 600, {"characteristics"})>>,
          <<Atom("body_long_form_2", 397, {})>> >>, TRUE)

\* a long record for the introduction, two for the characteristics and a
\* short one for the cultural section
LongData ==
  << Record("Wikipedia", "general_info", BodyLong),
     Record("OpenAlex", "characteristics", BodyLongFeatures),
     Record("pza.sanbi.org", "characteristics", BodyLongForm),
     Record("PubMed", "cultural", BodyCultural) >>

\* BodyFeatures with its first sentence in capitals
BodyFeaturesCaps ==
  Text(<< <<Atom("body_features_1_caps", 90, {"characteristics"})>>,
          <<Atom("body_features_2", 70, {"habitat"})>> >>, TRUE)

\* two records whose bodies differ only in case
CaseData ==
  << Record("Wikipedia", "general_info", BodyGeneral),
     Record("OpenAlex", "characteristics", BodyFeatures),
     Record("pza.sanbi.org", "characteristics", BodyFeaturesCaps) >>

RunsInputs ==
  { FullData,
    LongData,
    CaseData,
    SubSeq(FullData, 1, 2),
    <<Record("Wikipedia", "general_info", BodyGeneral)>> }

RunsNames == {KingProtea, DottedName}

\* a summary of three sentences
SummaryThree ==
  Text(<< <<Atom("constant_1", 43, {})>>,
          <<Atom("constant_2", 44, {})>>,
          <<Atom("constant_3", 43, {})>> >>, TRUE)

\* the summary 'Oh my! Oh no! Oh ya!'
SummaryExclaimed ==
  Text(<< <<Atom("oh_my", 6, {}), Atom("oh_no", 6, {}), Atom("oh_ya", 6, {})>> >>,
       FALSE)

\* deterministic summarizers: one that always raises, one that returns the
\* same summary for every input, one that returns SummaryA for the
\* introduction and SummaryB else, one that answers the characteristics
\* prompt with exclamations and raises else
Stubs ==
  { [k \in 1..Len(Sections) |-> Raises],
    [k \in 1..Len(Sections) |-> Returns(SummaryThree)],
    [k \in 1..Len(Sections) |-> IF k = 1 THEN Returns(SummaryA) ELSE Returns(SummaryB)],
    [k \in 1..Len(Sections) |-> IF k = 2 THEN Returns(SummaryExclaimed) ELSE Raises] }

MaxRuns == 2

\* the <h2> titles of an article, in order
RECURSIVE Headings(_)
Headings(blocks) ==
  IF blocks = <<>> THEN <<>>
  ELSE (IF Head(blocks).kind = "h2" THEN <<Head(blocks).sents[1]>> ELSE <<>>)
       \o Headings(Tail(blocks))

\* the sentences of the paragraphs of an article
Sentences(blocks) ==
  UNION { {blocks[b].sents[s] : s \in 1..Len(blocks[b].sents)} :
          b \in {c \in 1..Len(blocks) : blocks[c].kind = "p"} }

\* what a finished call selected and returned
RunSummary ==
  [selected |-> selected, headings |-> Headings(result.blocks),
   sentences |-> Sentences(result.blocks), outcome |-> result.outcome,
   include_front_matter |-> result.include_front_matter]

InitRuns ==
  /\ research_data \in RunsInputs
  /\ plant_name \in RunsNames
  /\ stub \in Stubs
  /\ run = 0
  /\ first_run = NoRun
  /\ used_content_hashes = {}
  /\ section_index = 1
  /\ selected = <<>>
  /\ sections_content = <<>>
  /\ summarizer_calls = <<>>
  /\ html_sections = <<>>
  /\ used_section_content = {}
  /\ result = NoResult
  /\ entry_dirty = FALSE
  /\ g_pc = "idle"
  /\ MatcherIdle
  /\ CollectorIdle
  /\ EntryIdle
  /\ AdaptersIdle
  /\ ThreadsIdle

\* lines 256-262 of a call with the arguments of the call before; the
\* arguments pass the input check
RunStart ==
  /\ g_pc \in {"idle", "done"}
  /\ run < MaxRuns
  /\ run' = run + 1
  /\ first_run' = IF run = 1 THEN RunSummary ELSE first_run
  /\ result' = NoResult
  /\ g_pc' = "sections"
  /\ used_content_hashes' = FreshHashes(used_content_hashes)
  /\ entry_dirty' = (used_content_hashes # {})
  /\ section_index' = 1
  /\ selected' = <<>>
  /\ sections_content' = <<>>
  /\ summarizer_calls' = <<>>
  /\ html_sections' = <<>>
  /\ used_section_content' = {}
  /\ UNCHANGED <<research_data, plant_name, stub,
                 matcher_vars, collector_vars, entry_vars,
                 adapters_vars, threads_vars>>

\* lines 264-324 with the summarizer stub
RunBuildSection == BuildSectionWith({stub[section_index]})

NextRuns ==
  \/ RunStart
  \/ RunBuildSection
  \/ ComposeSection
  \/ EnsureMinimum
  \/ ValidateAndReturn

SpecRuns == InitRuns /\ [][NextRuns]_vars


(***************************************************************************)
(* One call of an adapter of ResearchCollector, request by request: the    *)
(* GETs it sends, the time.sleep(self.delay) calls between them and the    *)
(* results it builds.                                                      *)
(***************************************************************************)
Adapters == {"wikipedia", "pubmed", "openalex", "botanical"}

\* search_variations[:2] of search_pubmed, search_openalex and
\* search_botanical_sites
MaxApiVariations == 2

\* the URLs search_botanical_sites tries in one call
MaxUrls == 3

\* the variations or URLs the loop of the adapter goes through
LoopLength(adapter, n) ==
  CASE adapter = "wikipedia" -> n
    [] adapter = "botanical" -> MaxUrls
    [] OTHER -> Min(n, MaxApiVariations)

\* what self.session.get can give: a response of status 200, a response of
\* another status, or an exception
Statuses == {"200", "404", "raised"}

Request(source, status) == [kind |-> "request", source |-> source, status |-> status]

Sleep(source) == [kind |-> "sleep", source |-> source, status |-> "none"]

\* the paragraphs of the Wikipedia page of a plant, and the paragraphs of
\* the page a server sends with a status other than 200
WikiArticle ==
  Text(<< <<Atom("wiki_article_1", 300, {"habitat"})>>,
          <<Atom("wiki_article_2", 297, {"cultural"})>> >>, TRUE)

ErrorPage ==
  Text(<< <<Atom("error_page_1", 250, {})>>, <<Atom("error_page_2", 247, {})>> >>, TRUE)

ShortPage == Text(<< <<Atom("short_page_1", 60, {})>> >>, TRUE)

\* the responses a page can come back with: the page with status 200, a
\* short page with status 200, the page of the server for another status,
\* or an exception in place of a response
Responses(page) ==
  { [status |-> "200", text |-> page],
    [status |-> "200", text |-> ShortPage],
    [status |-> "404", text |-> ErrorPage],
    [status |-> "raised", text |-> EmptyText] }

\* lines 279-324: _get_wikipedia_details reads the paragraphs of the
\* response whatever its status; {} (here found = FALSE) when the request
\* raised
_get_wikipedia_details(response) ==
  IF response.status = "raised" THEN [found |-> FALSE, full_text |-> EmptyText]
  ELSE [found |-> TRUE, full_text |-> response.text]

\* lines 261-267: the content of the result after the detailed data
DetailedContent(content, detailed_data) ==
  IF detailed_data.found /\ TextLen(detailed_data.full_text) > TextLen(content) * 2
  THEN detailed_data.full_text
  ELSE content

InitAdapters ==
  /\ a_adapter \in Adapters
  /\ a_variations \in 1..MaxVariations
  /\ a_index = 1
  /\ requests_log = <<>>
  /\ a_results = <<>>
  /\ a_pc = "loop"
  /\ MatcherIdle
  /\ CollectorIdle
  /\ GeneratorIdle
  /\ EntryIdle
  /\ RunsIdle
  /\ ThreadsIdle

\* the loop goes on to the next variation or URL, or the adapter returns
AdapterContinue ==
  /\ a_index' = a_index + 1
  /\ a_pc' = IF a_index = LoopLength(a_adapter, a_variations) THEN "done" ELSE "loop"

\* break or return inside the loop
AdapterReturn ==
  /\ a_index' = a_index
  /\ a_pc' = "done"

\* lines 240-277: one variation of get_wikipedia_content
WikipediaVariation ==
  /\ a_adapter = "wikipedia"
  /\ a_pc = "loop"
  /\ \E status \in Statuses, standard \in BOOLEAN :
       IF status = "200" /\ standard
       THEN \E has_url \in BOOLEAN, detail \in Responses(WikiArticle) :
              LET detailed_data == _get_wikipedia_details(detail)
                  content == IF has_url THEN DetailedContent(WikiExtract, detailed_data)
                             ELSE WikiExtract
              IN  /\ requests_log' =
                       requests_log \o <<Request("wikipedia", status)>>
                       \o (IF has_url THEN <<Request("wikipedia", detail.status)>> ELSE <<>>)
                  /\ a_results' = <<Record("Wikipedia", "general_info", content)>>
                  /\ AdapterReturn
       ELSE /\ requests_log' = Append(requests_log, Request("wikipedia", status))
            /\ a_results' = a_results
            /\ AdapterContinue
  /\ UNCHANGED <<a_adapter, a_variations, matcher_vars, collector_vars,
                 generator_vars, entry_vars, runs_vars, threads_vars>>

\* lines 331-394: one variation of search_pubmed, the search and, when it
\* gave ids, the fetch of the abstracts
PubMedVariation ==
  /\ a_adapter = "pubmed"
  /\ a_pc = "loop"
  /\ \E status \in Statuses, pmids \in BOOLEAN, fetch_status \in Statuses,
        articles \in BOOLEAN :
       LET fetched == status = "200" /\ pmids
           raised == status = "raised" \/ (fetched /\ fetch_status = "raised")
           results == IF fetched /\ fetch_status = "200" /\ articles
                      THEN <<Record("PubMed", "benefits", PubMedAbstract)>>
                      ELSE <<>>
           sent == <<Request("pubmed", status)>>
                   \o (IF fetched THEN <<Request("pubmed", fetch_status)>> ELSE <<>>)
       IN  /\ a_results' = results
           /\ IF raised \/ status = "404"
              THEN requests_log' = requests_log \o sent /\ AdapterContinue
              ELSE IF results # <<>>
              THEN requests_log' = requests_log \o sent /\ AdapterReturn
              ELSE requests_log' = requests_log \o sent \o <<Sleep("pubmed")>>
                   /\ AdapterContinue
  /\ UNCHANGED <<a_adapter, a_variations, matcher_vars, collector_vars,
                 generator_vars, entry_vars, runs_vars, threads_vars>>

\* lines 403-468: one variation of search_openalex
OpenAlexVariation ==
  /\ a_adapter = "openalex"
  /\ a_pc = "loop"
  /\ \E status \in Statuses, works \in BOOLEAN :
       LET results == IF status = "200" /\ works
                      THEN <<Record("OpenAlex", "characteristics", OpenAlexAbstract)>>
                      ELSE <<>>
           sent == <<Request("openalex", status)>>
       IN  /\ a_results' = results
           /\ IF status # "200"
              THEN requests_log' = requests_log \o sent /\ AdapterContinue
              ELSE IF results # <<>>
              THEN requests_log' = requests_log \o sent /\ AdapterReturn
              ELSE requests_log' = requests_log \o sent \o <<Sleep("openalex")>>
                   /\ AdapterContinue
  /\ UNCHANGED <<a_adapter, a_variations, matcher_vars, collector_vars,
                 generator_vars, entry_vars, runs_vars, threads_vars>>

\* lines 472-530: extract_text_from_url, None (here the empty text) for a
\* status other than 200, an exception or a text of at most 200 characters
extract_text_from_url(response) ==
  IF response.status = "200" /\ TextLen(response.text) > 200
  THEN response.text
  ELSE EmptyText

\* lines 551-570: one URL of search_botanical_sites
BotanicalUrl ==
  /\ a_adapter = "botanical"
  /\ a_pc = "loop"
  /\ \E response \in Responses(SitePage) :
       LET content == extract_text_from_url(response)
       IN  /\ a_results' =
                IF TextLen(content) > 100
                THEN Append(a_results, Record("pza.sanbi.org", "characteristics", content))
                ELSE a_results
           /\ requests_log' =
                requests_log
                \o <<Request("pza.sanbi.org", response.status), Sleep("pza.sanbi.org")>>
           /\ AdapterContinue
  /\ UNCHANGED <<a_adapter, a_variations, matcher_vars, collector_vars,
                 generator_vars, entry_vars, runs_vars, threads_vars>>

NextAdapters ==
  \/ WikipediaVariation
  \/ PubMedVariation
  \/ OpenAlexVariation
  \/ BotanicalUrl

SpecAdapters == InitAdapters /\ [][NextAdapters]_vars


(***************************************************************************)
(* Two calls of generate_article on one ArticleGenerator, served by two    *)
(* threads: each resets self.used_content_hashes (line 262) and then       *)
(* extracts the content of its five sections (lines 264-324); the threads  *)
(* take turns between these steps.  Both work on the one set               *)
(* self.used_content_hashes of the instance.                               *)
(***************************************************************************)
Calls == {1, 2}

ThreadInputs == {FullData, CaseData, SubSeq(FullData, 1, 2)}

\* a call is before its reset (0), about to extract section 1..5, or past
\* the last extraction
ThreadDone == Len(Sections) + 1

InitThreads ==
  /\ t_research_data \in [Calls -> ThreadInputs]
  /\ t_selected = [c \in Calls |-> <<>>]
  /\ t_pc = [c \in Calls |-> 0]
  /\ MatcherIdle
  /\ CollectorIdle
  /\ GeneratorIdle
  /\ EntryIdle
  /\ RunsIdle
  /\ AdaptersIdle

\* line 262 in the thread of call c
ThreadReset(c) ==
  /\ t_pc[c] = 0
  /\ used_content_hashes' = {}
  /\ t_pc' = [t_pc EXCEPT ![c] = 1]
  /\ UNCHANGED <<t_research_data, t_selected>>

\* one extract_section_content of lines 264-324 in the thread of call c
ThreadExtract(c) ==
  /\ t_pc[c] \in 1..Len(Sections)
  /\ LET section == Sections[t_pc[c]]
         extracted == extract_section_content(t_research_data[c], section.section_type,
                                              section.max_items, used_content_hashes)
     IN  /\ t_selected' = [t_selected EXCEPT ![c] = Append(@, extracted.chosen)]
         /\ used_content_hashes' = extracted.used_content_hashes
  /\ t_pc' = [t_pc EXCEPT ![c] = @ + 1]
  /\ UNCHANGED t_research_data

NextThreads ==
  /\ \E c \in Calls : ThreadReset(c) \/ ThreadExtract(c)
  /\ UNCHANGED <<research_data, plant_name, section_index, selected, sections_content,
                 summarizer_calls, html_sections, used_section_content, result,
                 entry_dirty, g_pc, matcher_vars, collector_vars, entry_vars,
                 runs_vars, adapters_vars>>

SpecThreads == InitThreads /\ [][NextThreads]_vars

(***************************************************************************)
(* Properties of the matcher (SpecMatcher)                                 *)
(***************************************************************************)
One == [num |-> 1, den |-> 1]

\* C4: whenever the input equals a catalog alias case-insensitively, the
\* first candidate returned by fuzzy_match has similarity 1.0 and its
\* matched alias is that alias.
C4_ExactAliasIsTop ==
  (m_pc = "done" /\ lower(search_term) \in CatalogNames)
    => /\ matches # <<>>
       /\ FracEq(matches[1].similarity, One)
       /\ matches[1].matched_name = lower(search_term)

\* C5: fuzzy_match returns its candidates in non-increasing order of
\* similarity, and candidates of equal similarity in catalog insertion order.
C5_SortedStable ==
  m_pc = "done" =>
    \A i, j \in 1..Len(matches) :
      i < j =>
        /\ FracGeq(matches[i].similarity, matches[j].similarity)
        /\ FracEq(matches[i].similarity, matches[j].similarity)
             => CatalogIndex(matches[i].plant_key) < CatalogIndex(matches[j].plant_key)

\* a result in which the sort moved a later plant ahead of an earlier one
\* and also left two plants of equal similarity next to each other
C5_Witness ==
  /\ m_pc = "done"
  /\ \E i, j \in 1..Len(matches) :
       /\ i < j
       /\ CatalogIndex(matches[i].plant_key) > CatalogIndex(matches[j].plant_key)
  /\ \E i, j \in 1..Len(matches) :
       /\ i < j
       /\ FracEq(matches[i].similarity, matches[j].similarity)
       /\ matches[i].similarity.num > 0

\* C6: "king protea" resolves to a first candidate with scientific name
\* "Protea cynaroides" and similarity at least 0.8 (the high-confidence
\* branch of research_plant).
C6_KingProteaHighConfidence ==
  (m_pc = "done" /\ strip(lower(search_term)) = KingProtea)
    => /\ matches # <<>>
       /\ matches[1].scientific_name = ProteaCynaroides
       /\ FracGeq(matches[1].similarity, HighConfidence)

(***************************************************************************)
(* Properties of the collector (SpecCollector)                             *)
(***************************************************************************)
\* no adapter call so far gave a record
AllYieldNothing == \A k \in 1..Len(adapter_log) : adapter_log[k][2] # "found"

\* C1: for every name and every combination of adapter outcomes (records,
\* nothing, failure), collect_research returns at least one record.
C1_NeverEmpty == c_pc = "done" => Len(all_content) >= 1

\* a call that returned although an adapter raised and another failed
C1_Witness ==
  /\ c_pc = "done"
  /\ \E k \in 1..Len(adapter_log) : adapter_log[k][2] = "raised"
  /\ \E k \in 1..Len(adapter_log) : adapter_log[k][2] = "failed"
  /\ AllYieldNothing
  /\ Len(all_content) >= 1

\* C2: when the Wikipedia, PubMed, OpenAlex and botanical-site adapters all
\* yield nothing, collect_research returns exactly one record, the
\* synthetic one, of type 'general_info' and with a non-empty body.
C2_SingleFallbackRecord ==
  (c_pc = "done" /\ AllYieldNothing)
    => /\ Len(all_content) = 1
       /\ all_content[1].source = "Enhanced Default"
       /\ all_content[1].type = "general_info"
       /\ TextLen(all_content[1].content) > 0

\* the scenario of the unknown plant: every adapter answered with nothing
C2_Witness ==
  /\ c_pc = "done"
  /\ c_plant_name = UnknownPlant
  /\ Len(adapter_log) = 4
  /\ \A k \in 1..Len(adapter_log) : adapter_log[k][2] = "nothing"
  /\ Len(all_content) = 1

(***************************************************************************)
(* Properties of the generator (Spec)                                      *)
(***************************************************************************)
\* the call passed the input check of lines 256-257
InputAccepted == research_data # <<>> /\ plant_name # <<>>

\* the call passed the input check and has returned
Returned == g_pc = "done" /\ result.outcome \in {"accept", "fallback"}

\* the sentences of the paragraphs of a document, in order
RECURSIVE DocumentSentences(_)
DocumentSentences(blocks) ==
  IF blocks = <<>> THEN <<>>
  ELSE (IF Head(blocks).kind = "p" THEN Head(blocks).sents ELSE <<>>)
       \o DocumentSentences(Tail(blocks))

\* two sentences of the document have the same case-folded text
HasDuplicateSentence(blocks) ==
  LET sentences == DocumentSentences(blocks)
  IN  \E i, j \in 1..Len(sentences) :
        i < j /\ LowerSentence(sentences[i]) = LowerSentence(sentences[j])

\* C3: in the document returned by generate_article, composed or template
\* fallback, no two sentences have the same normalized text.
C3_NoDuplicateSentence == Returned => ~HasDuplicateSentence(result.blocks)

\* a call is under way or has returned
InCall == g_pc \in {"sections", "compose", "minimum", "validate"} \/ Returned

\* the records selected so far in this call, as pairs of the section's
\* position and the record's index in research_data
Picks ==
  UNION {{<<b, selected[b][k]>> : k \in 1..Len(selected[b])} : b \in 1..Len(selected)}

\* C7: within one call a record whose body was selected for an earlier
\* section is never selected for a later one, and of two records with
\* byte-identical bodies at most one contributes to any section.
C7_BodySelectedOnce ==
  InCall =>
    \A p, q \in Picks :
      p # q => research_data[p[2]].content # research_data[q[2]].content

\* a record of type 'cultural' was passed over by every section because its
\* body is the one the introduction had taken from an earlier record
C7_Witness ==
  /\ Returned
  /\ \E i, j \in 1..Len(research_data) :
       /\ i < j
       /\ <<1, i>> \in Picks
       /\ research_data[j].content = research_data[i].content
       /\ research_data[j].type = "cultural"
       /\ \A b \in 1..Len(selected) : <<b, j>> \notin Picks

\* every call of the summarizer in this call raised
SummarizerAlwaysRaised ==
  \A k \in 1..Len(summarizer_calls) : summarizer_calls[k].raised

\* C8: if the summarizer raises on every call, then for every record
\* sequence and subject name that reach the assembly generate_article uses
\* the fallback text of each of the five sections, the composed document
\* passes validation and is the one returned.
C8_AllRaiseAccepted ==
  (g_pc = "done" /\ InputAccepted /\ SummarizerAlwaysRaised)
    => /\ \A b \in 1..Len(sections_content) : sections_content[b] = EmptyText
       /\ result.outcome = "accept"
       /\ result.blocks = html_sections

\* the validation of the composed article, with the front matter of a title
ComposedValid(title) ==
  _validate_no_duplicates(
    Article(FrontMatter(result.include_front_matter, plant_name, title),
            html_sections))

C9_State ==
  InCall =>
    /\ Len(summarizer_calls) <= Len(Sections)
    /\ \A i, j \in 1..Len(summarizer_calls) :
         i < j => summarizer_calls[i].section # summarizer_calls[j].section
    /\ (g_pc = "done" /\ InputAccepted) =>
         \/ /\ result.outcome = "accept"
            /\ \E title \in 1..Len(TitleVariations) : ComposedValid(title)
            /\ result.blocks = html_sections
         \/ /\ result.outcome = "fallback"
            /\ \E title \in 1..Len(TitleVariations) : ~ComposedValid(title)
            /\ result.blocks = _generate_fallback_article(plant_name)

C9_Step ==
  g_pc = "validate" => (g_pc' = "done" /\ summarizer_calls' = summarizer_calls)

\* C9: when the validation finds a duplicate sentence, generate_article
\* returns the template-only fallback article built from the subject name
\* alone; the summarizer is called at most once per section, at most five
\* times in a call, and never after the validation, which ends the call in
\* accept or fallback.
C9_FallbackWithoutRetry == [](C9_State) /\ [][C9_Step]_vars

\* a call whose summaries went into the composed article, whose validation
\* found a duplicate and which returned the fallback article
C9_Witness ==
  /\ Returned
  /\ result.outcome = "fallback"
  /\ plant_name = KingProtea
  /\ \E k \in 1..Len(summarizer_calls) : ~summarizer_calls[k].raised
  /\ HasDuplicateSentence(html_sections)

\* the selections of sections k.. when extraction starts from the set hashes
RECURSIVE SelectionFrom(_, _, _)
SelectionFrom(data, k, hashes) ==
  IF k > Len(Sections) THEN <<>>
  ELSE LET extracted == extract_section_content(data, Sections[k].section_type,
                                                Sections[k].max_items, hashes)
       IN  <<extracted.chosen>> \o SelectionFrom(data, k + 1, extracted.used_content_hashes)

\* C10: after any sequence of calls the set of used content hashes is empty
\* when a call starts to extract, so the records selected in a call are
\* those its own inputs give from an empty set, whatever earlier calls used.
C10_SelectionPerCall ==
  InCall =>
    /\ (g_pc = "sections" /\ section_index = 1) => used_content_hashes = {}
    /\ selected = SubSeq(SelectionFrom(research_data, 1, {}), 1, Len(selected))

\* a call entered with hashes left by an earlier call selected both bodies
\* of the pool that can be selected, one of them used by the earlier call
C10_Witness ==
  /\ Returned
  /\ entry_dirty
  /\ Cardinality({research_data[p[2]].content : p \in Picks}) = 2

(***************************************************************************)
(* Properties of get_search_variations (SpecMatcher)                       *)
(***************************************************************************)
\* C13: the list get_search_variations returns begins with the name it was
\* given, unchanged; when fuzzy_match finds no candidate for the name the
\* list is that name alone
C13_RawNameFirst ==
  m_pc = "varied" =>
    /\ variations # <<>>
    /\ variations[1] = search_term
    /\ fuzzy_match(search_term, LowThreshold) = <<>> => variations = <<search_term>>

\* a padded name in mixed case without any candidate
C13_Witness ==
  /\ m_pc = "varied"
  /\ search_term # strip(search_term)
  /\ search_term # lower(search_term)
  /\ fuzzy_match(search_term, LowThreshold) = <<>>
  /\ variations = <<search_term>>

\* the names get_search_variations may take from a match
NamesOfMatch(match) ==
  {match.scientific_name, match.matched_name}
  \cup {match.common_names[c] : c \in 1..Len(match.common_names)}

\* C14: get_search_variations returns at most 5 variants, each the given
\* name or a name of one of the top 3 candidates, and no two of them equal
\* when compared without regard to case
C14_FewDistinctVariants ==
  m_pc = "varied" =>
    /\ Len(variations) <= 5
    /\ \A i, j \in 1..Len(variations) :
         i # j => lower(variations[i]) # lower(variations[j])
    /\ \E matches_found \in {fuzzy_match(search_term, LowThreshold)} :
         \A i \in 1..Len(variations) :
           \/ variations[i] = search_term
           \/ \E k \in 1..Min(3, Len(matches_found)) :
                variations[i] \in NamesOfMatch(matches_found[k])

\* an upper-case name with more than 3 candidates: the alias it matched is
\* dropped as a duplicate of the name itself, and the list is cut at 5
C14_Witness ==
  /\ m_pc = "varied"
  /\ search_term # lower(search_term)
  /\ Len(fuzzy_match(search_term, LowThreshold)) > 3
  /\ fuzzy_match(search_term, LowThreshold)[1].matched_name = lower(search_term)
  /\ Len(variations) = 5

\* C20: every call of the summarizer passes a max_length of at most one
\* eighth of the length of the text handed to it
C20_MaxLengthWithinEighth ==
  \A k \in 1..Len(summarizer_calls) :
    8 * summarizer_calls[k].max_length <= summarizer_calls[k].input_text

\* C19: every paragraph create_html_paragraphs emits into the document
\* holds at least 2 and at most 4 sentences
C19_ParagraphsOfTwoToFour ==
  \A b \in 1..Len(html_sections) :
    html_sections[b].kind = "p" => Len(html_sections[b].sents) \in 2..4

\* the section a block of html_sections belongs to: 1..5 are the entries
\* of Sections, 6 is the block added for a thin document
BlockSection(block) ==
  IF block.kind = "p"
  THEN IF block.class = "fallback" THEN Len(Sections) + 1
       ELSE CHOOSE i \in 1..Len(Sections) : Sections[i].class = block.class
  ELSE IF block = Heading(AboutTitle) THEN Len(Sections) + 1
       ELSE CHOOSE i \in 1..Len(Sections) : Heading(Sections[i].title) = block

\* C17: in html_sections the introduction paragraphs come first and have no
\* heading; the other sections follow in the order of Sections, each begun
\* by its heading, which comes once, and followed only by its own paragraphs
C17_SectionsInOrder ==
  \A b \in 1..Len(html_sections) :
    LET block == html_sections[b]
        before == IF b = 1 THEN 0 ELSE BlockSection(html_sections[b - 1])
    IN  /\ before <= BlockSection(block)
        /\ block.kind = "h2" => (1 < BlockSection(block) /\ before < BlockSection(block))
        /\ (block.kind = "p" /\ BlockSection(block) > 1) => before = BlockSection(block)

\* a document with the introduction and the four headed sections
C17_Witness ==
  /\ g_pc = "validate"
  /\ {BlockSection(html_sections[b]) : b \in 1..Len(html_sections)} = 1..Len(Sections)
  /\ \E b \in 1..Len(html_sections) :
       html_sections[b].kind = "p" /\ Len(html_sections[b].sents) > 1

(***************************************************************************)
(* Properties of collect_research under adapter failures (SpecCollector)   *)
(***************************************************************************)
\* the adapters in the order collect_research calls them
AdapterOrder == <<"wikipedia", "pubmed", "openalex", "botanical">>

\* the 'source' of the records of each adapter
AdapterSource ==
  [wikipedia |-> "Wikipedia", pubmed |-> "PubMed", openalex |-> "OpenAlex",
   botanical |-> "pza.sanbi.org"]

RecordsOf(adapter) ==
  {k \in 1..Len(all_content) : all_content[k].source = AdapterSource[adapter]}

\* C15: whatever adapter fails or raises, collect_research does not end by
\* an exception, calls the four adapters in their order, holds no record of
\* a failed adapter and holds the records of every adapter that found some
C15_FailuresContained ==
  /\ c_pc \in {"wikipedia", "pubmed", "openalex", "botanical", "finish", "done"}
  /\ Len(adapter_log) <= Len(AdapterOrder)
  /\ \A k \in 1..Len(adapter_log) : adapter_log[k][1] = AdapterOrder[k]
  /\ c_pc \in {"finish", "done"} => Len(adapter_log) = Len(AdapterOrder)
  /\ \A k \in 1..Len(adapter_log) :
       /\ adapter_log[k][2] \in {"failed", "raised"}
            => RecordsOf(adapter_log[k][1]) = {}
       /\ adapter_log[k][2] = "found" => RecordsOf(adapter_log[k][1]) # {}

\* a finished call in which the first two adapters failed and the last two
\* found records
C15_Witness ==
  /\ c_pc = "done"
  /\ adapter_log = << <<"wikipedia", "failed">>, <<"pubmed", "raised">>,
                      <<"openalex", "found">>, <<"botanical", "found">> >>
  /\ [k \in 1..Len(all_content) |-> all_content[k].source]
       = <<"OpenAlex", "pza.sanbi.org">>

(***************************************************************************)
(* Properties of research_plant and generate_plant_article (SpecEntry)     *)
(***************************************************************************)
\* C12: research_plant collects research for the top candidate's scientific
\* name when its score is at least 0.8, for its matched alias when the score
\* is at least 0.6, below that for the Wikipedia title if one was found and
\* else for the matched alias; without a candidate it is the Wikipedia
\* title if one was found and else the name given
C12_TermByConfidence ==
  e_pc # "research" =>
    IF e_matches = <<>>
    THEN research_plant_name =
           (IF wiki_plant_name # <<>> THEN wiki_plant_name ELSE e_plant_name)
    ELSE /\ 10 * e_matches[1].similarity.num >= 8 * e_matches[1].similarity.den
            => research_plant_name = e_matches[1].scientific_name
         /\ ( /\ 10 * e_matches[1].similarity.num >= 6 * e_matches[1].similarity.den
              /\ 10 * e_matches[1].similarity.num < 8 * e_matches[1].similarity.den )
            => research_plant_name = e_matches[1].matched_name
         /\ 10 * e_matches[1].similarity.num < 6 * e_matches[1].similarity.den
            => research_plant_name =
                 (IF wiki_plant_name # <<>> THEN wiki_plant_name
                  ELSE e_matches[1].matched_name)

\* a research with a top candidate below 0.6 and a Wikipedia title
C12_Witness ==
  /\ e_pc = "generate"
  /\ e_matches # <<>>
  /\ ~FracGeq(e_matches[1].similarity, MediumConfidence)
  /\ e_matches[1].similarity.num > 0
  /\ wiki_plant_name = WikiTitle
  /\ research_plant_name = WikiTitle

\* C16: for every name, whatever fails, generate_plant_article ends with a
\* document: it returns True and the article is in the posts directory
C16_AlwaysDocument ==
  e_pc = "done" => (e_returned = <<TRUE>> /\ saved_posts # {})

(***************************************************************************)
(* Properties of two calls with the same arguments (SpecRuns)              *)
(***************************************************************************)
\* C11: a second generate_article call with the same records, the same name
\* and the same deterministic summarizer selects the same records per
\* section and returns an article with the same headings in the same order,
\* the same set of sentences and the same outcome as the first call
C11_SameTwice ==
  ( /\ run = MaxRuns
    /\ g_pc = "done"
    /\ first_run.include_front_matter = result.include_front_matter )
  => first_run = RunSummary

\* C18: in html_sections every heading is followed by a paragraph of its
\* own section
C18_HeadingHasParagraph ==
  \A b \in 1..Len(html_sections) :
    html_sections[b].kind = "h2"
      => /\ b < Len(html_sections)
         /\ html_sections[b + 1].kind = "p"
         /\ BlockSection(html_sections[b + 1]) = BlockSection(html_sections[b])

\* the content lengths the length parameters are examined for
ContentLengths == MinSectionInput..(MaxCombinedLength + 3)

\* C29: every call of the summarizer asks for a min_length of at most its
\* max_length and a max_length of at most the max_length of the section, and
\* so do the parameters generate_section computes for every content length
\* from 20 to 1503 and every section (they do not depend on the state and
\* are examined before the first call)
C29_LengthsOrdered ==
  /\ \A k \in 1..Len(summarizer_calls) :
       LET call == summarizer_calls[k]
           section == CHOOSE s \in {Sections[i] : i \in 1..Len(Sections)} :
                        s.key = call.section
       IN  /\ call.min_length <= call.max_length
           /\ call.max_length <= section.max_length
  /\ run = 0 =>
     \A i \in 1..Len(Sections), n \in ContentLengths :
       /\ AdjustedMin(n, Sections[i].max_length, Sections[i].min_length)
            <= AdjustedMax(n, Sections[i].max_length, Sections[i].min_length)
       /\ AdjustedMax(n, Sections[i].max_length, Sections[i].min_length)
            <= Sections[i].max_length

\* a call for a content of more than 8 * max_length characters, whose
\* max_length is that of the section, and a call for a content of less than
\* 8 * min_length characters, whose max_length is the min_length of the
\* section
C29_Witness ==
  /\ \E k \in 1..Len(summarizer_calls) :
       /\ summarizer_calls[k].content > 800
       /\ summarizer_calls[k].max_length = 100
       /\ summarizer_calls[k].min_length = 50
  /\ \E k \in 1..Len(summarizer_calls) :
       /\ summarizer_calls[k].content < 400
       /\ summarizer_calls[k].max_length = 50
       /\ summarizer_calls[k].min_length = 25


(***************************************************************************)
(* Properties of the composition of the document                           *)
(***************************************************************************)
\* the text chosen for section k: its generated text, else its fallback
ChosenText(k) == SectionText(sections_content[k], Sections[k].key, plant_name)

\* the sections the composition loop has already passed
Composed ==
  IF g_pc = "compose" THEN 1..(section_index - 1)
  ELSE IF g_pc \in {"minimum", "validate"} THEN 1..Len(Sections)
  ELSE {}

\* section k chose a text an earlier section of the document chose too
RepeatsEarlier(k) ==
  /\ TextLen(ChosenText(k)) > 0
  /\ \E j \in 1..(k - 1) : ChosenText(j) = ChosenText(k)

\* C30: a section whose chosen text is identical to the chosen text of an
\* earlier section of the document has neither its heading nor any of its
\* paragraphs in html_sections
C30_RepeatedSectionOmitted ==
  \A k \in Composed :
    RepeatsEarlier(k) =>
      \A b \in 1..Len(html_sections) : BlockSection(html_sections[b]) # k

\* the loop has passed a section that repeats an earlier one, and the
\* earlier one is in the document
C30_Witness ==
  \E k \in Composed :
    /\ RepeatsEarlier(k)
    /\ \E b \in 1..Len(html_sections) : BlockSection(html_sections[b]) < k

\* the sections of Sections that have a block in the composed document, a
\* heading and its paragraphs counting as one block
SectionBlocks ==
  {BlockSection(html_sections[b]) : b \in 1..Len(html_sections)} \ {Len(Sections) + 1}

AboutBlocks ==
  {b \in 1..Len(html_sections) : html_sections[b] = Heading(AboutTitle)}

CallSection(call) == CHOOSE i \in 1..Len(Sections) : Sections[i].key = call.section

\* the length of the bodies of the records chosen, each cleaned and cut to
\* MaxCombinedLength characters on its own, joined by single spaces
RECURSIVE JoinedCutLen(_, _)
JoinedCutLen(data, chosen) ==
  IF chosen = <<>> THEN 0
  ELSE Min(TextLen(clean_text(data[Head(chosen)].content)), MaxCombinedLength)
       + (IF Len(chosen) > 1 THEN 1 ELSE 0)
       + JoinedCutLen(data, Tail(chosen))

\* C28: a section has at most max_items records selected (1 for the
\* introduction, 2 for the others), and the content handed to
\* generate_section is the selected bodies joined, each cut to 1500
\* characters on its own
C28_BodiesCutIndividually ==
  /\ \A i \in 1..Len(selected) : Len(selected[i]) <= Sections[i].max_items
  /\ \A k \in 1..Len(summarizer_calls) :
       summarizer_calls[k].content =
         JoinedCutLen(research_data, selected[CallSection(summarizer_calls[k])])

\* C21: a record whose type is one of the thematic sections is selected
\* only for the section of that type, never for the introduction or for
\* another thematic section
C21_TypedRecordInItsSection ==
  \A i \in 1..Len(selected) :
    \A c \in 1..Len(selected[i]) :
      LET item == research_data[selected[i][c]]
      IN  item.type \in ThematicSections => Sections[i].section_type = item.type

\* a text after case folding (the blanks of a text are single already)
Normalized(t) == [t EXCEPT !.sents = [s \in 1..Len(t.sents) |-> LowerSentence(t.sents[s])]]

\* C23: two records of research_data whose bodies are equal after
\* whitespace collapsing and case folding have the same fingerprint, and
\* within one call at most one of them is selected
C23_NormalizedFingerprint ==
  \A i, j \in 1..Len(research_data) :
    (i < j /\ Normalized(research_data[i].content) = Normalized(research_data[j].content))
      => /\ _hash_content(research_data[i].content) = _hash_content(research_data[j].content)
         /\ InCall =>
              ~ \E p, q \in Picks : p[2] = i /\ q[2] = j

(***************************************************************************)
(* Properties of the records collect_research returns                      *)
(***************************************************************************)
\* C22: every record of the list collect_research returns has a body of at
\* least 30 characters
C22_BodiesUsable ==
  c_pc = "done" =>
    \A k \in 1..Len(all_content) : TextLen(all_content[k].content) >= MinContentLength

(***************************************************************************)
(* Properties of one adapter call (SpecAdapters)                           *)
(***************************************************************************)
\* C26: the text of a response whose status is not 200 is never the body
\* of a result of an adapter
C26_NoBodyFromFailedResponse ==
  \A k \in 1..Len(a_results) : a_results[k].content # ErrorPage

\* C27: the adapter sends no two requests to its source without a
\* time.sleep(self.delay) between them
C27_DelayBetweenRequests ==
  \A i, j \in 1..Len(requests_log) :
    (/\ i < j
     /\ requests_log[i].kind = "request"
     /\ requests_log[j].kind = "request"
     /\ requests_log[i].source = requests_log[j].source)
      => \E s \in (i + 1)..(j - 1) : requests_log[s].kind = "sleep"

(***************************************************************************)
(* Properties of two interleaved calls (SpecThreads)                       *)
(***************************************************************************)
\* the items generate_article selects per section for data when no other
\* call runs: sections from k on, with used in self.used_content_hashes
RECURSIVE SelectedAlone(_, _, _)
SelectedAlone(data, k, used) ==
  IF k > Len(Sections) THEN <<>>
  ELSE LET extracted == extract_section_content(data, Sections[k].section_type,
                                                Sections[k].max_items, used)
       IN  <<extracted.chosen>> \o SelectedAlone(data, k + 1, extracted.used_content_hashes)

\* C24: a call that has extracted all its sections while another call ran
\* on the same instance selected, per section, the items it selects when
\* it runs alone
C24_SelectionAsAlone ==
  \A c \in DOMAIN t_pc :
    t_pc[c] = ThreadDone => t_selected[c] = SelectedAlone(t_research_data[c], 1, {})

====
